---- MODULE Spec2Model ----
(***************************************************************************)
(* Client-side analytics / experimentation layer of the Agility CMS        *)
(* Next.js demo site: the queueing PostHog provider, the A/B test hero,    *)
(* the scroll / time-on-page milestone hooks and the page view tracker.    *)
(***************************************************************************)
EXTENDS Integers, Sequences, FiniteSets, Bags, TLC

\* ------------------------------------------------------------------ bounds
MaxCalls == 2          \* direct identify/track/page/group calls in one run
MaxVariants == 2       \* items in the CMS variant list
MaxFlagChanges == 1    \* changes of the feature flag value after hydration
MaxNav == 2            \* navigations in one run
MaxNow == 1            \* clock ticks in one run
MaxScrollTop == 3      \* largest window.scrollY
MaxTimeOnPage == 301   \* seconds counted by useTimeOnPage in one run
MaxNavTime == 31       \* the same, where navigation is under study
MaxUnmounts == 1       \* unmounts of client components in one run
MaxServerCalls == 3    \* calls of the server helpers in one run
MaxIdles == 1          \* half hours of inactivity in one run
MaxHeroItems == 2      \* items in the personalized hero list
MaxPtTimers == 2       \* pending retries of PersonalizationTracker
MaxArCalls == 3        \* calls of useAudienceRegionParams' helpers in one run
MaxWaitAttempts == 3   \* largest explicit maxAttempts handed to waitForPostHog

\* ------------------------------------------------------------- JS values
\* JavaScript's undefined, for string-valued fields.
Undefined == "undefined"

\* An omitted optional argument (traits / properties): a record without fields
\* of interest, so that p?.field yields undefined.
NoArg == [absent |-> "yes"]

\* p?.field
Get(p, field) == IF field \in DOMAIN p THEN p[field] ELSE Undefined

\* a || b on string-or-undefined operands
OrElse(a, b) == IF a \in {Undefined, ""} THEN b ELSE a

\* The value of new Date().toISOString() / Date.now() at the time of a call.
NowStamp == "now"

VARIABLES
    \* environment and SDK (instrumentation-client.ts)
    keySet,            \* NEXT_PUBLIC_POSTHOG_KEY is set
    hostSet,           \* NEXT_PUBLIC_POSTHOG_HOST is set
    instrumented,      \* instrumentation-client.ts has run
    windowPosthog,     \* window.posthog is set
    loaded,            \* posthog.__loaded
    \* queueing provider
    eventQueue,        \* eventQueue
    isFlushingQueue,   \* isFlushingQueue
    flushTimers,       \* pending setTimeout(checkAndFlush, 100)
    sdkLog,            \* calls received by the PostHog SDK, in order
    calls,             \* history: provider calls made, in order
    \* A/B test hero (ABTestHero.tsx, ABTestHeroClient.tsx)
    heroStage,         \* "request" | "failed" | "ssr" | "hydrated" | "client"
    mainItem,          \* fields of the hero's main content item in the CMS
    listFetch,         \* history: how getContentList ended
    heroWarnings,      \* console.warn calls made by ABTestHero
    allVariants,       \* the allVariants prop
    hasMounted,        \* hasMounted state
    flagVariant,       \* value returned by useFeatureFlagVariantKey
    flagChanges,       \* number of changes of the flag value so far
    view,              \* what the last render of ABTestHeroClient returned
    exposureTimers,    \* pending setTimeout(trackExposure, 100), oldest first
    \* browser: clock, document, router
    now,               \* Date.now(), in ticks
    docVisible,        \* document.visibilityState === 'visible'
    pathname,          \* usePathname()
    search,            \* useSearchParams().toString()
    locale,            \* locale prop of AnalyticsProvider
    navCount,          \* navigations so far
    analyticsMounted,  \* AnalyticsProvider (trackers and hooks) is mounted
    \* useScrollTracking
    scrollTop,         \* window.scrollY
    scrollableHeight,  \* scrollHeight - innerHeight of the current page
    scrollReached,     \* reachedMilestones.current
    pageLoadTime,      \* pageLoadTime.current
    debounceTimeout,   \* the debounce timer is pending
    scrollEmitted,     \* history: scroll_milestone events per milestone since the last reset
    \* useTimeOnPage
    timeReached,       \* reachedMilestones.current
    timeOnPage,        \* timeOnPage.current, in seconds
    isVisible,         \* isVisible.current
    timeEmitted,       \* history: time_milestone events per milestone since the last reset
    \* PageviewTracker
    lastTrackedPath,   \* lastTrackedPath.current
    pvTimer,           \* the pending trackPageView timeout, with what it captured
    isFirstPageView,   \* module-level isFirstPageView
    hookResets,        \* history: resets of the engagement hooks so far
    lastPageViewPath,  \* history: full path of the last page view tracked, "" when none
    \* component lifetimes
    unmountCount,      \* history: unmounts of client components so far
    \* localStorage
    lsUserId,          \* analytics_user_id
    lsFirstSeen,       \* analytics_first_seen
    lsSessionCount,    \* analytics_session_count
    lsLastSession,     \* analytics_last_session
    \* UserIdentifier
    uiMounted,         \* UserIdentifier is mounted
    identifiedRef,     \* identifiedRef.current
    lastPropertiesRef, \* lastPropertiesRef.current
    uiTimers,          \* pending setTimeout(identify, 100), each with its closure
    \* PersonalizationTracker
    ptMounted,         \* PersonalizationTracker is mounted
    ptProps,           \* its props
    trackedRef,        \* trackedRef.current
    ptTimers,          \* pending setTimeout(trackPersonalization, 100), each with its closure
    ptEmitted,         \* history: personalization events emitted since the last mount
    \* server process (get-client.ts, track-event.ts, feature flags)
    initAttempted,     \* initAttempted
    posthogClient,     \* posthogClient: NoClient for null, else the number of the client
    constructed,       \* history: PostHog clients constructed so far
    serverLog,         \* events handed to client.capture, in order
    serverCalls,       \* history: calls of the server helpers with their outcomes
    \* PersonalizedBackgroundHero
    phRequest,         \* what one request found: search params, CMS content
    phRender,          \* what the component rendered for it
    \* useAudienceRegionParams
    arMounted,         \* the component using the hook is mounted
    arParams,          \* audience and region of useSearchParams() in the hook's last render
    prevAudienceRef,   \* prevAudienceRef.current
    prevRegionRef,     \* prevRegionRef.current
    arPushed,          \* the query of the URL handed to router.push, not yet rendered
    arLog,             \* history: calls of the hook's helpers, in order
    \* waitForPostHog (posthog-provider.ts)
    maxAttempts,       \* maxAttempts of the call
    attempts,          \* attempts
    checkTimer,        \* setTimeout(check, 100) is pending
    callbackCalls,     \* history: invocations of callback
    waitWarnings,      \* history: console.warn calls of check
    checks             \* history: the checks made, each with its delay and what it found

envVars == <<keySet, hostSet, instrumented, windowPosthog, loaded>>
queueVars == <<eventQueue, isFlushingQueue, flushTimers, sdkLog, calls>>
heroVars == <<heroStage, mainItem, listFetch, heroWarnings, allVariants,
              hasMounted, flagVariant, flagChanges, view, exposureTimers>>
navVars == <<now, docVisible, pathname, search, locale, navCount, analyticsMounted>>
scrollVars == <<scrollTop, scrollableHeight, scrollReached, pageLoadTime,
                debounceTimeout, scrollEmitted>>
timeVars == <<timeReached, timeOnPage, isVisible, timeEmitted>>
pvVars == <<lastTrackedPath, pvTimer, isFirstPageView, hookResets, lastPageViewPath>>
trackVars == <<navVars, scrollVars, timeVars, pvVars>>
storageVars == <<lsUserId, lsFirstSeen, lsSessionCount, lsLastSession>>
uiVars == <<uiMounted, identifiedRef, lastPropertiesRef, uiTimers>>
ptVars == <<ptMounted, ptProps, trackedRef, ptTimers, ptEmitted>>
serverVars == <<initAttempted, posthogClient, constructed, serverLog, serverCalls,
                phRequest, phRender>>
arVars == <<arMounted, arParams, prevAudienceRef, prevRegionRef, arPushed, arLog>>
waitVars == <<maxAttempts, attempts, checkTimer, callbackCalls, waitWarnings, checks>>
hookVars == <<arVars, waitVars>>
appVars == <<unmountCount, storageVars, uiVars, ptVars, serverVars, hookVars>>
vars == <<envVars, queueVars, heroVars, trackVars, appVars>>

\* Frames: everything outside the named groups.
exceptEnv == <<queueVars, heroVars, trackVars, appVars>>
exceptQueue == <<envVars, heroVars, trackVars, appVars>>
exceptHero == <<envVars, queueVars, trackVars, appVars>>
exceptHeroQueue == <<envVars, trackVars, appVars>>
exceptTrackQueue == <<envVars, heroVars, appVars>>

\* ------------------------------------------------ instrumentation-client
Configured == keySet /\ hostSet

\* Variation: posthog.init and window.posthog without the credentials guard.
InstrumentationClientUnguarded ==
    /\ ~instrumented
    /\ instrumented' = TRUE
    /\ windowPosthog' = TRUE
    /\ UNCHANGED <<keySet, hostSet, loaded>>
    /\ UNCHANGED exceptEnv

\* Module body of instrumentation-client.ts: posthog.init and window.posthog
\* only when both credentials are present.
InstrumentationClient ==
    /\ ~instrumented
    /\ instrumented' = TRUE
    /\ windowPosthog' = Configured
    /\ UNCHANGED <<keySet, hostSet, loaded>>
    /\ UNCHANGED exceptEnv

\* The SDK finishes initialising: posthog.__loaded becomes true. Only an
\* initialised SDK ever loads.
SdkLoaded ==
    /\ windowPosthog
    /\ ~loaded
    /\ loaded' = TRUE
    /\ UNCHANGED <<keySet, hostSet, instrumented, windowPosthog>>
    /\ UNCHANGED exceptEnv

\* ------------------------------------------------------ queueing provider
\* getPostHog(): window.posthog when it is set and loaded, null otherwise.
GetPostHog == windowPosthog /\ loaded

\* The provider's own state as one value, so that the handlers compose.
PS == [eventQueue |-> eventQueue, isFlushingQueue |-> isFlushingQueue,
       flushTimers |-> flushTimers, sdkLog |-> sdkLog]

SetPS(ps) ==
    /\ eventQueue' = ps.eventQueue
    /\ isFlushingQueue' = ps.isFlushingQueue
    /\ flushTimers' = ps.flushTimers
    /\ sdkLog' = ps.sdkLog

\* What the SDK receives for each provider call once PostHog is available.
SdkIdentify(userId, traits) ==
    [method |-> "identify", id |-> userId, traits |-> traits, set |-> traits,
     first_seen |-> OrElse(Get(traits, "firstSeen"), NowStamp)]

SdkCapture(event, properties) ==
    [method |-> "capture", event |-> event, properties |-> properties,
     timestamp |-> OrElse(Get(properties, "timestamp"), NowStamp)]

SdkPageview(name, properties) ==
    [method |-> "capture", event |-> "$pageview", page_name |-> name,
     pathname |-> OrElse(Get(properties, "path"), "window.location.pathname"),
     title |-> OrElse(Get(properties, "title"), "document.title"),
     load_time_ms |-> Get(properties, "loadTime"),
     locale |-> Get(properties, "locale")]

SdkGroup(groupId, traits) ==
    [method |-> "group", groupType |-> "company", id |-> groupId, traits |-> traits]

SdkCallOf(ev) ==
    CASE ev.type = "identify" -> SdkIdentify(ev.userId, ev.traits)
      [] ev.type = "track" -> SdkCapture(ev.event, ev.properties)
      [] ev.type = "page" -> SdkPageview(ev.name, ev.properties)
      [] ev.type = "group" -> SdkGroup(ev.groupId, ev.traits)

\* The queued form of each call.
QIdentify(userId, traits) == [type |-> "identify", userId |-> userId, traits |-> traits]
QTrack(event, properties) == [type |-> "track", event |-> event, properties |-> properties]
QPage(name, properties) == [type |-> "page", name |-> name, properties |-> properties]
QGroup(groupId, traits) == [type |-> "group", groupId |-> groupId, traits |-> traits]

\* Variation: the switch has no case for 'page', so a shifted page event is
\* dropped.
RECURSIVE FlushLoopNoPageCase(_)
FlushLoopNoPageCase(ps) ==
    IF Len(ps.eventQueue) = 0 THEN ps
    ELSE LET event == Head(ps.eventQueue)
             rest == [ps EXCEPT !.eventQueue = Tail(@)]
         IN IF event.type = "page" THEN FlushLoopNoPageCase(rest)
            ELSE FlushLoopNoPageCase([rest EXCEPT !.sdkLog = Append(@, SdkCallOf(event))])

\* The flush loop of checkAndFlush: shift each event and hand it back to the
\* provider method of its type. PostHog is available for the whole loop, so
\* every redispatched call reaches the SDK.
RECURSIVE FlushLoop(_)
FlushLoop(ps) ==
    IF Len(ps.eventQueue) = 0 THEN ps
    ELSE LET event == Head(ps.eventQueue)
             rest == [ps EXCEPT !.eventQueue = Tail(@)]
         IN FlushLoop([rest EXCEPT !.sdkLog = Append(@, SdkCallOf(event))])

\* Variation: checkAndFlush gives up when PostHog is not available.
CheckAndFlushGiveUp(ps) ==
    IF GetPostHog /\ Len(ps.eventQueue) > 0
    THEN [FlushLoop(ps) EXCEPT !.isFlushingQueue = FALSE]
    ELSE [ps EXCEPT !.isFlushingQueue = FALSE]

\* checkAndFlush
CheckAndFlush(ps) ==
    IF GetPostHog /\ Len(ps.eventQueue) > 0
    THEN [FlushLoop(ps) EXCEPT !.isFlushingQueue = FALSE]
    ELSE IF ~GetPostHog
    THEN [ps EXCEPT !.flushTimers = @ + 1]
    ELSE [ps EXCEPT !.isFlushingQueue = FALSE]

\* waitForPostHogAndFlush
WaitForPostHogAndFlush(ps) ==
    IF ps.isFlushingQueue THEN ps
    ELSE CheckAndFlush([ps EXCEPT !.isFlushingQueue = TRUE])

\* PostHogProvider.identify / track / page / group: queue while PostHog is not
\* available, forward to the SDK otherwise.
Dispatch(ps, ev) ==
    IF ~GetPostHog
    THEN WaitForPostHogAndFlush([ps EXCEPT !.eventQueue = Append(@, ev)])
    ELSE [ps EXCEPT !.sdkLog = Append(@, SdkCallOf(ev))]

ProviderIdentify(ps, userId, traits) == Dispatch(ps, QIdentify(userId, traits))
ProviderTrack(ps, event, properties) == Dispatch(ps, QTrack(event, properties))
ProviderPage(ps, name, properties) == Dispatch(ps, QPage(name, properties))
ProviderGroup(ps, groupId, traits) == Dispatch(ps, QGroup(groupId, traits))

\* PostHogProvider.isReady / analytics.isReady
IsReady == GetPostHog

\* The 100 ms timer set by checkAndFlush fires.
CheckAndFlushFire ==
    /\ flushTimers > 0
    /\ SetPS(CheckAndFlush([PS EXCEPT !.flushTimers = @ - 1]))
    /\ UNCHANGED calls
    /\ UNCHANGED exceptQueue

\* ------------------------------------------------- direct analytics calls
\* History entry for a provider call: the call and whether getPostHog() was
\* null when it was made.
Made(ev) == [ev |-> ev, queued |-> ~GetPostHog]

UserIds == {"anon_1"}
TraitsArgs == {NoArg, [audience |-> "enterprise", firstSeen |-> "t0"]}
EventNames == {"cta_clicked"}
PropertiesArgs == {NoArg, [location |-> "hero", timestamp |-> "t0"]}
PageNames == {"/blog"}
PageArgs == {NoArg, [path |-> "/blog", locale |-> "en-us"]}
GroupIds == {"acme"}

CallIdentify ==
    /\ Len(calls) < MaxCalls
    /\ \E userId \in UserIds, traits \in TraitsArgs :
         /\ SetPS(ProviderIdentify(PS, userId, traits))
         /\ calls' = Append(calls, Made(QIdentify(userId, traits)))
    /\ UNCHANGED exceptQueue

CallTrack ==
    /\ Len(calls) < MaxCalls
    /\ \E event \in EventNames, properties \in PropertiesArgs :
         /\ SetPS(ProviderTrack(PS, event, properties))
         /\ calls' = Append(calls, Made(QTrack(event, properties)))
    /\ UNCHANGED exceptQueue

CallPage ==
    /\ Len(calls) < MaxCalls
    /\ \E name \in PageNames, properties \in PageArgs :
         /\ SetPS(ProviderPage(PS, name, properties))
         /\ calls' = Append(calls, Made(QPage(name, properties)))
    /\ UNCHANGED exceptQueue

CallGroup ==
    /\ Len(calls) < MaxCalls
    /\ \E groupId \in GroupIds, traits \in TraitsArgs :
         /\ SetPS(ProviderGroup(PS, groupId, traits))
         /\ calls' = Append(calls, Made(QGroup(groupId, traits)))
    /\ UNCHANGED exceptQueue

\* ----------------------------------------------------------- ABTestHero
\* Values of useFeatureFlagVariantKey: string | boolean | undefined.
FlagUndefined == [kind |-> "undefined", val |-> "undefined"]
FlagBool(b) == [kind |-> "boolean", val |-> b]
FlagString(str) == [kind |-> "string", val |-> str]

\* Variant keys are non-empty strings in PostHog.
FlagValues ==
    {FlagUndefined, FlagBool("false"), FlagBool("true"), FlagString("control"),
     FlagString("variant-a"), FlagString("variant-b"), FlagString("true")}

\* JavaScript truthiness of a flag value.
Truthy(f) ==
    \/ f.kind = "boolean" /\ f.val = "true"
    \/ f.kind = "string" /\ f.val # ""

\* v.variant === flagVariant, the left side being a string.
StrictEq(name, f) == f.kind = "string" /\ f.val = name

\* Variant items an editor may have put in the CMS list.
VariantItems ==
    {[variant |-> "variant-a", heading |-> "A first", imagePosition |-> "left"],
     [variant |-> "variant-a", heading |-> "A second", imagePosition |-> Undefined],
     [variant |-> "control", heading |-> "CMS control", imagePosition |-> Undefined],
     [variant |-> "true", heading |-> "Named true", imagePosition |-> "left"]}

VariantLists ==
    UNION {[1..n -> VariantItems] : n \in 0..MaxVariants}

\* The main content item: experimentKey, heading, imagePosition and the
\* reference to the variants list (other fields behave like heading).
MainItems ==
    [experimentKey : {"", "hero-test"}, heading : {"Main heading"},
     imagePosition : {Undefined, "left"}, variantsRef : {Undefined, "herovariants"}]

\* How getContentList can end: it throws, or returns with or without items.
ListOutcomes ==
    {[kind |-> "throws", items |-> <<>>], [kind |-> "noItems", items |-> <<>>]}
        \cup {[kind |-> "items", items |-> l] : l \in VariantLists}

\* The control variant built from the main content (imagePosition = "right"
\* is the destructuring default).
ControlVariantOf(main) ==
    [variant |-> "control", heading |-> main.heading,
     imagePosition |-> IF main.imagePosition = Undefined THEN "right"
                       ELSE main.imagePosition]

\* variantsList after the try/catch around getContentList.
VariantsListOf(main, outcome) ==
    IF main.variantsRef = Undefined THEN <<>>
    ELSE IF outcome.kind = "items" THEN outcome.items
    ELSE <<>>

\* allVariants = [controlVariant, ...variantsList]
AllVariantsOf(main, outcome) ==
    <<ControlVariantOf(main)>> \o VariantsListOf(main, outcome)

\* ------------------------------------------------------ ABTestHeroClient
\* Variation: the last match instead of the first.
FindIndexLast(variants, f) ==
    LET hits == {i \in DOMAIN variants : StrictEq(variants[i].variant, f)}
    IN IF hits = {} THEN 0 ELSE CHOOSE i \in hits : \A j \in hits : i >= j

\* Array.prototype.find on v.variant === key: the first match, or undefined
\* (here the empty sequence stands for "not found").
FindIndex(variants, f) ==
    LET hits == {i \in DOMAIN variants : StrictEq(variants[i].variant, f)}
    IN IF hits = {} THEN 0 ELSE CHOOSE i \in hits : \A j \in hits : i <= j

\* controlVariant = allVariants.find(v => v.variant === "control") || allVariants[0]
ControlVariant(variants) ==
    LET i == FindIndex(variants, FlagString("control"))
    IN IF i > 0 THEN variants[i] ELSE variants[1]

\* Variation: no loading state.
IsLoadingNever(mounted, f) == FALSE

\* isLoading
IsLoading(mounted, f) == mounted /\ f = FlagUndefined

\* Variation: the evaluated variant is selected whether or not the component
\* has mounted.
SelectedVariantUnmounted(variants, mounted, f) ==
    IF Truthy(f)
    THEN LET i == FindIndex(variants, f)
         IN IF i > 0 THEN variants[i] ELSE variants[1]
    ELSE variants[1]

\* selectedVariant
SelectedVariant(variants, mounted, f) ==
    IF mounted /\ Truthy(f)
    THEN LET i == FindIndex(variants, f)
         IN IF i > 0 THEN variants[i] ELSE ControlVariant(variants)
    ELSE ControlVariant(variants)

\* The element returned by one render: the skeleton while loading, the
\* selected variant's content otherwise.
Render(variants, mounted, f) ==
    LET selected == SelectedVariant(variants, mounted, f)
    IN IF IsLoading(mounted, f)
       THEN [kind |-> "skeleton", dataVariant |-> "loading", dataEvaluated |-> "false",
             heading |-> Undefined, imagePosition |-> Undefined]
       ELSE [kind |-> "content", dataVariant |-> selected.variant,
             dataEvaluated |-> IF mounted /\ f # FlagUndefined THEN "true" ELSE "false",
             heading |-> selected.heading,
             imagePosition |-> IF selected.imagePosition = Undefined THEN "right"
                               ELSE selected.imagePosition]

NoView == [kind |-> "none", dataVariant |-> Undefined, dataEvaluated |-> Undefined,
           heading |-> Undefined, imagePosition |-> Undefined]

\* The exposure properties captured by one run of the exposure effect.
ExposureProps(key, variant) ==
    [experimentKey |-> key, variant |-> variant, component |-> "ABTestHero"]

\* trackExposure: track when analytics is ready, otherwise retry in 100 ms.
\* Yields the provider state and the timers left pending.
TrackExposure(ps, timers, props) ==
    IF ~IsReady
    THEN [ps |-> ps, timers |-> Append(timers, props), tracked |-> <<>>]
    ELSE [ps |-> ProviderTrack(ps, "experiment_exposure", props), timers |-> timers,
          tracked |-> <<Made(QTrack("experiment_exposure", props))>>]

\* The exposure effect, run after a render whose dependencies changed.
ExposureEffect(ps, timers, key, variants, mounted, f) ==
    IF key = "" \/ ~mounted \/ f = FlagUndefined
    THEN [ps |-> ps, timers |-> timers, tracked |-> <<>>]
    ELSE TrackExposure(ps, timers,
                       ExposureProps(key, SelectedVariant(variants, mounted, f).variant))

\* Variation: the error of getContentList escapes.
ABTestHeroUncaught(main, mainOk, outcome) ==
    IF ~mainOk \/ (main.variantsRef # Undefined /\ outcome.kind = "throws")
    THEN [failed |-> TRUE,
          listFetch |-> IF mainOk THEN "throws" ELSE "notCalled",
          warnings |-> 0, allVariants |-> <<>>]
    ELSE [failed |-> FALSE,
          listFetch |-> IF main.variantsRef = Undefined THEN "notCalled" ELSE outcome.kind,
          warnings |-> 0,
          allVariants |-> AllVariantsOf(main, outcome)]

\* ABTestHero: the props handed to ABTestHeroClient, or the error that
\* escapes. getContentItem's error is not caught; getContentList is called
\* only when the item references a variants list, inside try/catch, and its
\* error is logged with console.warn.
ABTestHero(main, mainOk, outcome) ==
    IF ~mainOk
    THEN [failed |-> TRUE, listFetch |-> "notCalled", warnings |-> 0, allVariants |-> <<>>]
    ELSE [failed |-> FALSE,
          listFetch |-> IF main.variantsRef = Undefined THEN "notCalled" ELSE outcome.kind,
          warnings |-> IF main.variantsRef # Undefined /\ outcome.kind = "throws"
                       THEN 1 ELSE 0,
          allVariants |-> AllVariantsOf(main, outcome)]

\* One request: ABTestHero, then the server render of ABTestHeroClient.
ABTestHeroServer ==
    /\ heroStage = "request"
    /\ \E mainOk \in BOOLEAN, outcome \in ListOutcomes, serverFlag \in FlagValues :
         LET r == ABTestHero(mainItem, mainOk, outcome)
         IN /\ heroStage' = IF r.failed THEN "failed" ELSE "ssr"
            /\ listFetch' = r.listFetch
            /\ heroWarnings' = heroWarnings + r.warnings
            /\ allVariants' = r.allVariants
            /\ view' = IF r.failed THEN view ELSE Render(r.allVariants, FALSE, serverFlag)
    /\ UNCHANGED <<mainItem, hasMounted, flagVariant, flagChanges, exposureTimers>>
    /\ UNCHANGED exceptHero

\* First client render (hydration): hasMounted is still false; the hook may
\* already return a cached flag value.
Hydrate ==
    /\ heroStage = "ssr"
    /\ heroStage' = "hydrated"
    /\ \E f \in FlagValues : flagVariant' = f
    /\ view' = Render(allVariants, FALSE, flagVariant')
    /\ UNCHANGED <<mainItem, listFetch, heroWarnings, allVariants, hasMounted,
                   flagChanges, exposureTimers>>
    /\ UNCHANGED exceptHero

\* The effects of the first client render: setHasMounted(true) (the exposure
\* effect returns early, hasMounted being false), then the re-render and the
\* exposure effect of that render.
MountEffect ==
    /\ heroStage = "hydrated"
    /\ heroStage' = "client"
    /\ hasMounted' = TRUE
    /\ view' = Render(allVariants, TRUE, flagVariant)
    /\ LET r == ExposureEffect(PS, exposureTimers, mainItem.experimentKey,
                               allVariants, TRUE, flagVariant)
       IN /\ SetPS(r.ps)
          /\ exposureTimers' = r.timers
          /\ calls' = calls \o r.tracked
    /\ UNCHANGED <<mainItem, listFetch, heroWarnings, allVariants, flagVariant, flagChanges>>
    /\ UNCHANGED exceptHeroQueue

\* The flag hook returns a new value: re-render, then the exposure effect
\* (flagVariant is one of its dependencies).
FlagChange ==
    /\ heroStage \in {"hydrated", "client"}
    /\ flagChanges < MaxFlagChanges
    /\ flagChanges' = flagChanges + 1
    /\ \E f \in FlagValues \ {flagVariant} : flagVariant' = f
    /\ view' = Render(allVariants, hasMounted, flagVariant')
    /\ LET r == ExposureEffect(PS, exposureTimers, mainItem.experimentKey,
                               allVariants, hasMounted, flagVariant')
       IN /\ SetPS(r.ps)
          /\ exposureTimers' = r.timers
          /\ calls' = calls \o r.tracked
    /\ UNCHANGED <<heroStage, mainItem, listFetch, heroWarnings, allVariants, hasMounted>>
    /\ UNCHANGED exceptHeroQueue

\* A pending trackExposure timer fires.
ExposureTimerFire ==
    /\ Len(exposureTimers) > 0
    /\ LET r == TrackExposure(PS, Tail(exposureTimers), Head(exposureTimers))
       IN /\ SetPS(r.ps)
          /\ exposureTimers' = r.timers
          /\ calls' = calls \o r.tracked
    /\ UNCHANGED <<heroStage, mainItem, listFetch, heroWarnings, allVariants,
                   hasMounted, flagVariant, flagChanges, view>>
    /\ UNCHANGED exceptHeroQueue

\* ------------------------------------------------------------- router
Pathnames == {"/", "/blog"}
Searches == {"", "audience=enterprise"}
Locales == {"en-us", "fr"}

\* fullPath = searchString ? `${pathname}?${searchString}` : pathname
FullPath(path, query) == IF query # "" THEN path \o "?" \o query ELSE path

\* ------------------------------------------------------ useScrollTracking
ScrollMilestones == <<25, 50, 75, 100>>
ScrollableHeights == {0, 3}

Min(a, b) == IF a <= b THEN a ELSE b

\* Math.round(n / d) for n >= 0, d > 0
RoundDiv(n, d) == (2 * n + d) \div (2 * d)

\* getScrollDepth
GetScrollDepth(top, scrollable) ==
    IF scrollable <= 0 THEN 100
    ELSE Min(100, RoundDiv(top * 100, scrollable))

NoneEmitted(milestones) == [m \in {milestones[i] : i \in DOMAIN milestones} |-> 0]

\* State threaded through the milestone loops: provider state, reached set,
\* emitted counts and the history entries of the calls made.
Hook(ps, reached, emitted) == [ps |-> ps, reached |-> reached, emitted |-> emitted, made |-> <<>>]

ScrollProps(milestone, timeToReach, path) ==
    [depth |-> milestone, timeToReach |-> timeToReach, path |-> path]

\* Variation: the milestone is tracked but not recorded as reached.
ScrollTrackMilestoneNoAdd(h, milestone, timeToReach, path) ==
    IF milestone \in h.reached THEN h
    ELSE LET props == ScrollProps(milestone, timeToReach, path)
         IN [h EXCEPT !.made = Append(@, Made(QTrack("scroll_milestone", props))),
                      !.ps = ProviderTrack(@, "scroll_milestone", props),
                      !.emitted[milestone] = @ + 1]

\* useScrollTracking.trackMilestone
ScrollTrackMilestone(h, milestone, timeToReach, path) ==
    IF milestone \in h.reached THEN h
    ELSE LET props == ScrollProps(milestone, timeToReach, path)
         IN [h EXCEPT !.made = Append(@, Made(QTrack("scroll_milestone", props))),
                      !.ps = ProviderTrack(@, "scroll_milestone", props),
                      !.emitted[milestone] = @ + 1,
                      !.reached = @ \cup {milestone}]

\* The loop of the debounced callback over milestones i..4.
RECURSIVE ScrollCheckMilestones(_, _, _, _, _)
ScrollCheckMilestones(h, i, depth, timeToReach, path) ==
    IF i > Len(ScrollMilestones) THEN h
    ELSE LET milestone == ScrollMilestones[i]
             next == IF depth >= milestone /\ milestone \notin h.reached
                     THEN ScrollTrackMilestone(h, milestone, timeToReach, path)
                     ELSE h
         IN ScrollCheckMilestones(next, i + 1, depth, timeToReach, path)

\* A scroll event: handleScroll clears the pending debounce timer and sets a
\* new one.
Scroll ==
    /\ analyticsMounted
    /\ \E top \in 0..MaxScrollTop : scrollTop' = top
    /\ debounceTimeout' = TRUE
    /\ UNCHANGED <<scrollableHeight, scrollReached, pageLoadTime, scrollEmitted>>
    /\ UNCHANGED <<appVars, envVars, queueVars, heroVars, navVars, timeVars, pvVars>>

\* The document's height changes (content of a new page, images loading).
Layout ==
    /\ \E height \in ScrollableHeights \ {scrollableHeight} : scrollableHeight' = height
    /\ UNCHANGED <<scrollTop, scrollReached, pageLoadTime, debounceTimeout, scrollEmitted>>
    /\ UNCHANGED <<appVars, envVars, queueVars, heroVars, navVars, timeVars, pvVars>>

\* The debounce timer fires: every milestone at or below the current depth
\* that has not been reached is tracked.
DebounceFire ==
    /\ debounceTimeout
    /\ debounceTimeout' = FALSE
    /\ LET h == ScrollCheckMilestones(Hook(PS, scrollReached, scrollEmitted), 1,
                                      GetScrollDepth(scrollTop, scrollableHeight),
                                      now - pageLoadTime, pathname)
       IN /\ SetPS(h.ps)
          /\ calls' = calls \o h.made
          /\ scrollReached' = h.reached
          /\ scrollEmitted' = h.emitted
    /\ UNCHANGED <<scrollTop, scrollableHeight, pageLoadTime>>
    /\ UNCHANGED <<appVars, envVars, heroVars, navVars, timeVars, pvVars>>

\* ---------------------------------------------------------- useTimeOnPage
TimeMilestones == <<30, 60, 120, 300>>

TimeProps(seconds, visible, path) ==
    [seconds |-> seconds, isVisible |-> visible, path |-> path]

\* Variation: the milestone is tracked but not recorded as reached.
TimeTrackMilestoneNoAdd(h, seconds, visible, path) ==
    IF seconds \in h.reached THEN h
    ELSE LET props == TimeProps(seconds, visible, path)
         IN [h EXCEPT !.made = Append(@, Made(QTrack("time_milestone", props))),
                      !.ps = ProviderTrack(@, "time_milestone", props),
                      !.emitted[seconds] = @ + 1]

\* useTimeOnPage.trackMilestone
TimeTrackMilestone(h, seconds, visible, path) ==
    IF seconds \in h.reached THEN h
    ELSE LET props == TimeProps(seconds, visible, path)
         IN [h EXCEPT !.made = Append(@, Made(QTrack("time_milestone", props))),
                      !.ps = ProviderTrack(@, "time_milestone", props),
                      !.emitted[seconds] = @ + 1,
                      !.reached = @ \cup {seconds}]

\* The loop of the interval callback over milestones i..4.
RECURSIVE TimeCheckMilestones(_, _, _, _, _)
TimeCheckMilestones(h, i, seconds, visible, path) ==
    IF i > Len(TimeMilestones) THEN h
    ELSE LET milestone == TimeMilestones[i]
             next == IF seconds >= milestone /\ milestone \notin h.reached
                     THEN TimeTrackMilestone(h, milestone, visible, path)
                     ELSE h
         IN TimeCheckMilestones(next, i + 1, seconds, visible, path)

\* One run of the interval callback (intervalMs = 1000): nothing while
\* isVisible.current is false, otherwise one more second and the milestone loop.
IntervalTick ==
    /\ analyticsMounted
    /\ timeOnPage < MaxTimeOnPage
    /\ IF ~isVisible
       THEN UNCHANGED <<timeOnPage, timeReached, timeEmitted, queueVars>>
       ELSE /\ timeOnPage' = timeOnPage + 1
            /\ LET h == TimeCheckMilestones(Hook(PS, timeReached, timeEmitted), 1,
                                            timeOnPage', isVisible, pathname)
               IN /\ SetPS(h.ps)
                  /\ calls' = calls \o h.made
                  /\ timeReached' = h.reached
                  /\ timeEmitted' = h.emitted
    /\ UNCHANGED isVisible
    /\ UNCHANGED <<appVars, envVars, heroVars, navVars, scrollVars, pvVars>>

\* A visibilitychange event: the handler copies the document's state into
\* isVisible.current.
VisibilityChange ==
    /\ docVisible' = ~docVisible
    /\ isVisible' = IF analyticsMounted THEN docVisible' ELSE isVisible
    /\ UNCHANGED <<now, pathname, search, locale, navCount, analyticsMounted>>
    /\ UNCHANGED <<timeReached, timeOnPage, timeEmitted>>
    /\ UNCHANGED <<appVars, envVars, queueVars, heroVars, scrollVars, pvVars>>

\* Time passes.
ClockTick ==
    /\ now < MaxNow
    /\ now' = now + 1
    /\ UNCHANGED <<docVisible, pathname, search, locale, navCount, analyticsMounted>>
    /\ UNCHANGED <<appVars, envVars, queueVars, heroVars, scrollVars, timeVars, pvVars>>

\* The user is away: half an hour passes, or a millisecond more.
Idle ==
    /\ now < MaxIdles * 30 * 60 * 1000
    /\ \E gap \in {30 * 60 * 1000, 30 * 60 * 1000 + 1} : now' = now + gap
    /\ UNCHANGED <<docVisible, pathname, search, locale, navCount, analyticsMounted>>
    /\ UNCHANGED <<appVars, envVars, queueVars, heroVars, scrollVars, timeVars, pvVars>>

\* -------------------------------------------------------- PageviewTracker
PvNone == [kind |-> "none", pathname |-> "", fullPath |-> "", locale |-> ""]

\* getLoadTime: only for the initial load, and only once the navigation entry
\* has a loadEventEnd.
GetLoadTime(isInitialLoad, loadEventEnded) ==
    IF ~isInitialLoad THEN Undefined
    ELSE IF loadEventEnded THEN "measured" ELSE Undefined

\* Variation: no check against the last tracked path.
PvEffectNoCheck(path, query, loc, lastTracked) ==
    [kind |-> "initial", pathname |-> path, fullPath |-> FullPath(path, query),
     locale |-> loc]

\* One run of PageviewTracker's effect, after the cleanup of the previous run
\* has cleared its timers: nothing for the last tracked full path, otherwise
\* trackPageView in 100 ms.
PvEffect(path, query, loc, lastTracked) ==
    IF FullPath(path, query) = lastTracked THEN PvNone
    ELSE [kind |-> "initial", pathname |-> path, fullPath |-> FullPath(path, query),
          locale |-> loc]

PageProps(t, loadTime) ==
    [path |-> t.pathname, locale |-> t.locale, loadTime |-> loadTime, timestamp |-> NowStamp]

\* The pending trackPageView timeout fires: track when analytics is ready,
\* retry in 100 ms otherwise.
PvTimerFire ==
    /\ pvTimer.kind # "none"
    /\ IF IsReady
       THEN \E loadEventEnded \in BOOLEAN :
              LET props == PageProps(pvTimer, GetLoadTime(isFirstPageView, loadEventEnded))
              IN /\ isFirstPageView' = FALSE
                 /\ SetPS(ProviderPage(PS, pvTimer.pathname, props))
                 /\ calls' = Append(calls, Made(QPage(pvTimer.pathname, props)))
                 /\ lastTrackedPath' = pvTimer.fullPath
                 /\ lastPageViewPath' = pvTimer.fullPath
                 /\ pvTimer' = PvNone
       ELSE /\ pvTimer' = [pvTimer EXCEPT !.kind = "retry"]
            /\ UNCHANGED <<isFirstPageView, lastTrackedPath, lastPageViewPath, queueVars>>
    /\ UNCHANGED hookResets
    /\ UNCHANGED <<appVars, envVars, heroVars, navVars, scrollVars, timeVars>>

\* ------------------------------------------------------------ localStorage
\* An item of localStorage: absent (getItem returns null) or a string. Decimal
\* strings are sequences of digits.
NoItem == [present |-> FALSE]
Item(value) == [present |-> TRUE, value |-> value]

\* localStorage.getItem(key) || fallback, for an item holding text: null and
\* the empty string are falsy.
TextOr(item, fallback) ==
    IF item.present /\ item.value # "" THEN item.value ELSE fallback

\* The same for an item holding a decimal string.
DecimalOr(item, fallback) ==
    IF item.present /\ item.value # <<>> THEN item.value ELSE fallback

\* n.toString() for an integer n >= 0
RECURSIVE DecimalString(_)
DecimalString(n) == IF n < 10 THEN <<n>> ELSE Append(DecimalString(n \div 10), n % 10)

\* new Date(t).toISOString()
IsoString(t) == "T" \o ToString(t)

\* parseInt(str, 10) for a string of decimal digits
RECURSIVE ParseInt(_)
ParseInt(str) ==
    IF Len(str) = 1 THEN str[1]
    ELSE 10 * ParseInt(SubSeq(str, 1, Len(str) - 1)) + str[Len(str)]

\* Date.now(): milliseconds since the epoch. The clock of the model starts at
\* Epoch, a date far more than SESSION_TIMEOUT after 1970 that still fits the
\* integers of the checker.
Epoch == 2000000000
DateNow == Epoch + now

\* The IDs `anon_${Date.now()}_${random}` can produce.
FreshUserIds == {"anon_1", "anon_2"}

Storage == [userId |-> lsUserId, firstSeen |-> lsFirstSeen,
            sessionCount |-> lsSessionCount, lastSession |-> lsLastSession]

SetStorage(st) ==
    /\ lsUserId' = st.userId
    /\ lsFirstSeen' = st.firstSeen
    /\ lsSessionCount' = st.sessionCount
    /\ lsLastSession' = st.lastSession

\* Variation: a new ID is generated and stored on every call.
GetOrCreateUserIdAlways(st, fresh) ==
    [st |-> [st EXCEPT !.userId = Item(fresh)], result |-> fresh]

\* getOrCreateUserId, with the ID a generation would produce
GetOrCreateUserId(st, fresh) ==
    IF TextOr(st.userId, "") = ""
    THEN [st |-> [st EXCEPT !.userId = Item(fresh)], result |-> fresh]
    ELSE [st |-> st, result |-> st.userId.value]

\* getFirstSeen, at time t
GetFirstSeen(st, t) ==
    IF TextOr(st.firstSeen, "") = ""
    THEN [st |-> [st EXCEPT !.firstSeen = Item(IsoString(t))], result |-> IsoString(t)]
    ELSE [st |-> st, result |-> st.firstSeen.value]

SESSION_TIMEOUT == 30 * 60 * 1000

\* Variation: the session count is stored without the increment.
GetSessionCountNoIncrement(st, t) ==
    LET lastSession == ParseInt(DecimalOr(st.lastSession, <<0>>))
        stored == ParseInt(DecimalOr(st.sessionCount, <<0>>))
        isNew == t - lastSession > SESSION_TIMEOUT
        counted == IF isNew THEN [st EXCEPT !.sessionCount = Item(DecimalString(stored))] ELSE st
    IN [st |-> [counted EXCEPT !.lastSession = Item(DecimalString(t))], result |-> stored]

\* getSessionCount, at time t
GetSessionCount(st, t) ==
    LET lastSession == ParseInt(DecimalOr(st.lastSession, <<0>>))
        stored == ParseInt(DecimalOr(st.sessionCount, <<0>>))
        isNew == t - lastSession > SESSION_TIMEOUT
        sessionCount == IF isNew THEN stored + 1 ELSE stored
        counted == IF isNew THEN [st EXCEPT !.sessionCount = Item(DecimalString(sessionCount))] ELSE st
    IN [st |-> [counted EXCEPT !.lastSession = Item(DecimalString(t))], result |-> sessionCount]

\* ---------------------------------------------------------- UserIdentifier
Null == "null"

\* searchParams.get(key): the parameter's value, null when it is missing.
SearchParam(query, key) ==
    IF key = "audience" /\ query = "audience=enterprise" THEN "enterprise" ELSE Null

\* value || undefined
OrUndefined(value) == IF value \in {Null, Undefined, ""} THEN Undefined ELSE value

\* The component's refs and timers, the provider and localStorage as one
\* value, with the history entries of the calls made.
UI == [ps |-> PS, st |-> Storage, identified |-> identifiedRef,
       lastProperties |-> lastPropertiesRef, timers |-> uiTimers, made |-> <<>>]

SetUI(u) ==
    /\ SetPS(u.ps)
    /\ SetStorage(u.st)
    /\ identifiedRef' = u.identified
    /\ lastPropertiesRef' = u.lastProperties
    /\ uiTimers' = u.timers
    /\ calls' = calls \o u.made

\* identify, the closure of one effect run: call analytics.identify when it
\* is ready, retry in 100 ms otherwise. The refs written are those of the
\* instance that ran the effect.
Identify(u, c) ==
    IF IsReady
    THEN [u EXCEPT !.ps = ProviderIdentify(@, c.userId, c.traits),
                   !.made = Append(@, Made(QIdentify(c.userId, c.traits))),
                   !.identified = IF c.live THEN TRUE ELSE @,
                   !.lastProperties = IF c.live THEN c.propertiesHash ELSE @]
    ELSE [u EXCEPT !.timers = Append(@, c)]

\* One run of UserIdentifier's effect.
UiEffect(u, query, loc, t, fresh) ==
    LET audience == OrUndefined(SearchParam(query, "audience"))
        region == OrUndefined(SearchParam(query, "region"))
        first == GetFirstSeen(u.st, t)
        session == GetSessionCount(first.st, t)
        traits == [locale |-> loc, audience |-> audience, region |-> region,
                   firstSeen |-> first.result, sessionCount |-> session.result]
        propertiesHash == <<audience, region, loc>>
        counted == [u EXCEPT !.st = session.st]
    IN IF ~u.identified \/ propertiesHash # u.lastProperties
       THEN LET id == GetOrCreateUserId(counted.st, fresh)
            IN Identify([counted EXCEPT !.st = id.st],
                        [userId |-> id.result, traits |-> traits,
                         propertiesHash |-> propertiesHash, live |-> TRUE])
       ELSE counted

\* UserIdentifier mounts: new refs, and the effect runs.
UiMount ==
    /\ ~uiMounted
    /\ uiMounted' = TRUE
    /\ \E fresh \in FreshUserIds :
         SetUI(UiEffect([UI EXCEPT !.identified = FALSE, !.lastProperties = <<>>],
                        search, locale, DateNow, fresh))
    /\ UNCHANGED <<unmountCount, ptVars, serverVars, hookVars>>
    /\ UNCHANGED <<envVars, heroVars, trackVars>>

\* UserIdentifier unmounts. Its effect returns no cleanup: pending identify
\* timers stay armed.
UiUnmount ==
    /\ uiMounted
    /\ unmountCount < MaxUnmounts
    /\ unmountCount' = unmountCount + 1
    /\ uiMounted' = FALSE
    /\ uiTimers' = [i \in DOMAIN uiTimers |-> [uiTimers[i] EXCEPT !.live = FALSE]]
    /\ UNCHANGED <<identifiedRef, lastPropertiesRef, storageVars, ptVars, serverVars, hookVars>>
    /\ UNCHANGED <<envVars, queueVars, heroVars, trackVars>>

\* The oldest pending identify timer fires.
UiTimerFire ==
    /\ Len(uiTimers) > 0
    /\ SetUI(Identify([UI EXCEPT !.timers = Tail(@)], Head(uiTimers)))
    /\ UNCHANGED <<unmountCount, uiMounted, ptVars, serverVars, hookVars>>
    /\ UNCHANGED <<envVars, heroVars, trackVars>>

\* ------------------------------------------------------ AnalyticsProvider
\* AnalyticsProvider mounts: first render and effects of PageviewTracker,
\* useScrollTracking (reset, listener and the initial handleScroll) and
\* useTimeOnPage (reset, visibility listener, interval).
Mount ==
    /\ ~analyticsMounted
    /\ analyticsMounted' = TRUE
    /\ lastTrackedPath' = ""
    /\ pvTimer' = PvEffect(pathname, search, locale, lastTrackedPath')
    /\ scrollReached' = {}
    /\ pageLoadTime' = now
    /\ scrollEmitted' = NoneEmitted(ScrollMilestones)
    /\ debounceTimeout' = TRUE
    /\ timeReached' = {}
    /\ timeOnPage' = 0
    /\ timeEmitted' = NoneEmitted(TimeMilestones)
    /\ isVisible' = TRUE
    /\ hookResets' = hookResets + 1
    /\ UNCHANGED <<now, docVisible, pathname, search, locale, navCount>>
    /\ UNCHANGED <<scrollTop, scrollableHeight, isFirstPageView, lastPageViewPath>>
    /\ UNCHANGED <<appVars, envVars, queueVars, heroVars>>

\* A client-side navigation to another full path and the effects it re-runs:
\* PageviewTracker's cleanup and effect, the reset effects of both hooks, and
\* UserIdentifier's effect where it is mounted. The scroll position is kept or
\* reset to the top.
Navigate ==
    /\ analyticsMounted
    /\ navCount < MaxNav
    /\ navCount' = navCount + 1
    /\ \E path \in Pathnames, query \in Searches :
         /\ FullPath(path, query) # FullPath(pathname, search)
         /\ pathname' = path
         /\ search' = query
    /\ pvTimer' = PvEffect(pathname', search', locale, lastTrackedPath)
    /\ scrollReached' = {}
    /\ pageLoadTime' = now
    /\ scrollEmitted' = NoneEmitted(ScrollMilestones)
    /\ timeReached' = {}
    /\ timeOnPage' = 0
    /\ timeEmitted' = NoneEmitted(TimeMilestones)
    /\ hookResets' = hookResets + 1
    /\ \E top \in {0, scrollTop} : scrollTop' = top
    /\ UNCHANGED <<now, docVisible, locale, analyticsMounted, scrollableHeight,
                   debounceTimeout, isVisible, lastTrackedPath, isFirstPageView,
                   lastPageViewPath>>
    /\ IF uiMounted
       THEN \E fresh \in FreshUserIds : SetUI(UiEffect(UI, search', locale, DateNow, fresh))
       ELSE UNCHANGED <<queueVars, storageVars, identifiedRef, lastPropertiesRef, uiTimers>>
    /\ UNCHANGED <<unmountCount, uiMounted, ptVars, serverVars, hookVars>>
    /\ UNCHANGED <<envVars, heroVars>>

\* The locale prop changes while the full path stays: the effects of
\* PageviewTracker (cleanup, then the effect again) and of UserIdentifier
\* depend on it.
LocaleChange ==
    /\ analyticsMounted
    /\ navCount < MaxNav
    /\ navCount' = navCount + 1
    /\ \E loc \in Locales \ {locale} : locale' = loc
    /\ pvTimer' = PvEffect(pathname, search, locale', lastTrackedPath)
    /\ UNCHANGED <<now, docVisible, pathname, search, analyticsMounted>>
    /\ UNCHANGED <<lastTrackedPath, isFirstPageView, hookResets, lastPageViewPath>>
    /\ IF uiMounted
       THEN \E fresh \in FreshUserIds : SetUI(UiEffect(UI, search, locale', DateNow, fresh))
       ELSE UNCHANGED <<queueVars, storageVars, identifiedRef, lastPropertiesRef, uiTimers>>
    /\ UNCHANGED <<unmountCount, uiMounted, ptVars, serverVars, hookVars>>
    /\ UNCHANGED <<envVars, heroVars, scrollVars, timeVars>>

\* Variation: PageviewTracker's cleanup leaves its timeout armed.
UnmountNoClear ==
    /\ analyticsMounted
    /\ unmountCount < MaxUnmounts
    /\ unmountCount' = unmountCount + 1
    /\ analyticsMounted' = FALSE
    /\ debounceTimeout' = FALSE
    /\ UNCHANGED <<now, docVisible, pathname, search, locale, navCount>>
    /\ UNCHANGED <<scrollTop, scrollableHeight, scrollReached, pageLoadTime, scrollEmitted>>
    /\ UNCHANGED <<timeVars, pvVars>>
    /\ UNCHANGED <<storageVars, uiVars, ptVars, serverVars, hookVars>>
    /\ UNCHANGED <<envVars, queueVars, heroVars>>

\* AnalyticsProvider's trackers unmount: PageviewTracker's cleanup clears its
\* timeout and retry, useScrollTracking's its debounce timer, useTimeOnPage's
\* its interval and listener.
Unmount ==
    /\ analyticsMounted
    /\ unmountCount < MaxUnmounts
    /\ unmountCount' = unmountCount + 1
    /\ analyticsMounted' = FALSE
    /\ pvTimer' = PvNone
    /\ debounceTimeout' = FALSE
    /\ UNCHANGED <<now, docVisible, pathname, search, locale, navCount>>
    /\ UNCHANGED <<scrollTop, scrollableHeight, scrollReached, pageLoadTime, scrollEmitted>>
    /\ UNCHANGED <<timeVars, lastTrackedPath, isFirstPageView, hookResets, lastPageViewPath>>
    /\ UNCHANGED <<storageVars, uiVars, ptVars, serverVars, hookVars>>
    /\ UNCHANGED <<envVars, queueVars, heroVars>>

\* ABTestHeroClient unmounts. Its exposure effect returns no cleanup: pending
\* trackExposure timers stay armed.
HeroUnmount ==
    /\ heroStage = "client"
    /\ unmountCount < MaxUnmounts
    /\ unmountCount' = unmountCount + 1
    /\ heroStage' = "unmounted"
    /\ view' = NoView
    /\ UNCHANGED <<mainItem, listFetch, heroWarnings, allVariants, hasMounted,
                   flagVariant, flagChanges, exposureTimers>>
    /\ UNCHANGED <<storageVars, uiVars, ptVars, serverVars, hookVars>>
    /\ UNCHANGED <<envVars, queueVars, trackVars>>

\* -------------------------------------------------- PersonalizationTracker
PtPropsSet ==
    [audience : {Null, "", "Enterprise"}, region : {Undefined, "emea"},
     isPersonalized : BOOLEAN]
NoProps == [audience |-> Null, region |-> Undefined, isPersonalized |-> FALSE]
PersonalizedProps == [audience |-> "Enterprise", region |-> Undefined, isPersonalized |-> TRUE]

PT == [ps |-> PS, tracked |-> trackedRef, timers |-> ptTimers,
       emitted |-> ptEmitted, made |-> <<>>]

SetPT(t) ==
    /\ SetPS(t.ps)
    /\ trackedRef' = t.tracked
    /\ ptTimers' = t.timers
    /\ ptEmitted' = t.emitted
    /\ calls' = calls \o t.made

\* The properties of the event. PersonalizedBackgroundHero passes its content
\* ID as contentID, a prop the component does not read: contentId is undefined.
PersonalizationProps(c, path) ==
    [personalizationType |-> c.personalizationType,
     audience |-> OrUndefined(c.props.audience),
     region |-> OrUndefined(c.props.region),
     component |-> "PersonalizedBackgroundHero", contentId |-> Undefined,
     path |-> path]

\* trackPersonalization, the closure of one effect run: track when analytics
\* is ready, retry in 100 ms otherwise. trackedRef is the ref of the instance
\* that ran the effect.
TrackPersonalization(t, c, path) ==
    IF ~IsReady THEN [t EXCEPT !.timers = Append(@, c)]
    ELSE LET event == IF c.props.isPersonalized THEN "personalized_content_viewed"
                      ELSE "personalization_applied"
             properties == PersonalizationProps(c, path)
         IN [t EXCEPT !.ps = ProviderTrack(@, event, properties),
                      !.made = Append(@, Made(QTrack(event, properties))),
                      !.emitted = IF c.live THEN @ + 1 ELSE @,
                      !.tracked = IF c.live THEN TRUE ELSE @]

\* One run of the effect that never refines the initial type 'audience'.
PtEffectTypeAudience(t, props, path) ==
    LET hasAudience == props.audience \notin {Null, Undefined}
        hasRegion == props.region \notin {Null, Undefined}
    IN IF t.tracked THEN t
       ELSE IF ~hasAudience /\ ~hasRegion THEN t
       ELSE TrackPersonalization(t, [props |-> props, live |-> TRUE,
                                     personalizationType |-> "audience"], path)

\* One run of PersonalizationTracker's effect.
PtEffect(t, props, path) ==
    LET hasAudience == props.audience \notin {Null, Undefined}
        hasRegion == props.region \notin {Null, Undefined}
        personalizationType == IF hasAudience /\ hasRegion THEN "both"
                               ELSE IF hasRegion THEN "region" ELSE "audience"
    IN IF t.tracked THEN t
       ELSE IF ~hasAudience /\ ~hasRegion THEN t
       ELSE TrackPersonalization(t, [props |-> props, live |-> TRUE,
                                     personalizationType |-> personalizationType], path)

\* PersonalizationTracker mounts with the props its server component passes.
PtMount ==
    /\ ~ptMounted
    /\ ptMounted' = TRUE
    /\ \E props \in PtPropsSet :
         /\ ptProps' = props
         /\ SetPT(PtEffect([PT EXCEPT !.tracked = FALSE, !.emitted = 0], props, pathname))
    /\ UNCHANGED <<unmountCount, storageVars, uiVars, serverVars, hookVars>>
    /\ UNCHANGED <<envVars, heroVars, trackVars>>

\* The props change (the server component re-renders): the effect runs again.
PtPropsChange ==
    /\ ptMounted
    /\ Len(ptTimers) < MaxPtTimers
    /\ \E props \in PtPropsSet \ {ptProps} :
         /\ ptProps' = props
         /\ SetPT(PtEffect(PT, props, pathname))
    /\ UNCHANGED <<unmountCount, ptMounted, storageVars, uiVars, serverVars, hookVars>>
    /\ UNCHANGED <<envVars, heroVars, trackVars>>

\* PersonalizationTracker unmounts. Its effect returns no cleanup: pending
\* trackPersonalization timers stay armed.
PtUnmount ==
    /\ ptMounted
    /\ unmountCount < MaxUnmounts
    /\ unmountCount' = unmountCount + 1
    /\ ptMounted' = FALSE
    /\ ptTimers' = [i \in DOMAIN ptTimers |-> [ptTimers[i] EXCEPT !.live = FALSE]]
    /\ UNCHANGED <<ptProps, trackedRef, ptEmitted, storageVars, uiVars, serverVars, hookVars>>
    /\ UNCHANGED <<envVars, queueVars, heroVars, trackVars>>

\* The oldest pending trackPersonalization timer fires.
PtTimerFire ==
    /\ Len(ptTimers) > 0
    /\ SetPT(TrackPersonalization([PT EXCEPT !.timers = Tail(@)], Head(ptTimers), pathname))
    /\ UNCHANGED <<unmountCount, ptMounted, ptProps, storageVars, uiVars, serverVars, hookVars>>
    /\ UNCHANGED <<envVars, heroVars, trackVars>>

\* ------------------------------------------- PersonalizedBackgroundHero
\* The six displayed fields.
PhFields == {"heading", "description", "cta1", "cta2", "backgroundType", "backgroundImage"}

\* Personalized hero items an editor may have written: linked to an audience
\* or to none (audienceDropdown missing), each field filled or left empty.
PhItems ==
    {[audienceDropdown |-> a,
      fields |-> [f \in PhFields |-> IF f \in empty THEN "" ELSE "personalized " \o f \o " for " \o a]] :
        a \in {Undefined, "11", "12"},
        empty \in {{}, PhFields, {"heading"}, {"cta1", "backgroundImage"}}}

\* What one request finds: whether globalData carries searchParams, the
\* audience parameter, the content ID getAudienceContentID resolves them to
\* (undefined when it resolves to none), and the list getContentList returns.
PhRequests ==
    [kind : {"request"}, hasSearchParams : BOOLEAN, audience : {Undefined, "enterprise"},
     audienceContentID : {Undefined, "11", "12"},
     items : UNION {[1..n -> PhItems] : n \in 0..MaxHeroItems}]

PhDefault(f) == "default " \o f

\* Variation: the personalized item's fields are used as they are.
PersonalizedBackgroundHeroNoFallback(req) ==
    LET hits == {i \in DOMAIN req.items :
                    req.items[i].audienceDropdown = req.audienceContentID}
        lookedUp == req.hasSearchParams /\ req.audienceContentID # Undefined
    IN [kind |-> "rendered",
        audienceName |-> IF req.hasSearchParams /\ req.audience # Undefined
                         THEN req.audience ELSE Null,
        isPersonalized |-> lookedUp /\ hits # {},
        selectedContent |->
            IF lookedUp /\ hits # {}
            THEN LET personalizedContent ==
                         req.items[CHOOSE i \in hits : \A j \in hits : i <= j]
                 IN [f \in PhFields |-> personalizedContent.fields[f]]
            ELSE [f \in PhFields |-> PhDefault(f)]]

\* PersonalizedBackgroundHero: the content it displays and the props it hands
\* to PersonalizationTracker. find returns the first item whose
\* audienceDropdown.contentID is the resolved ID; each field is the item's
\* value || the default.
PersonalizedBackgroundHero(req) ==
    LET hits == {i \in DOMAIN req.items :
                    req.items[i].audienceDropdown = req.audienceContentID}
        lookedUp == req.hasSearchParams /\ req.audienceContentID # Undefined
    IN [kind |-> "rendered",
        audienceName |-> IF req.hasSearchParams /\ req.audience # Undefined
                         THEN req.audience ELSE Null,
        isPersonalized |-> lookedUp /\ hits # {},
        selectedContent |->
            IF lookedUp /\ hits # {}
            THEN LET personalizedContent ==
                         req.items[CHOOSE i \in hits : \A j \in hits : i <= j]
                 IN [f \in PhFields |-> OrElse(personalizedContent.fields[f], PhDefault(f))]
            ELSE [f \in PhFields |-> PhDefault(f)]]

\* The server renders the component for the request.
PhServe ==
    /\ phRequest.kind = "request"
    /\ phRender' = PersonalizedBackgroundHero(phRequest)
    /\ UNCHANGED <<initAttempted, posthogClient, constructed, serverLog, serverCalls,
                   phRequest>>
    /\ UNCHANGED <<unmountCount, storageVars, uiVars, ptVars, hookVars>>
    /\ UNCHANGED <<envVars, queueVars, heroVars, trackVars>>

\* ------------------------------------------------ useAudienceRegionParams
\* IAudience | null and IRegion | null as handed to the helpers: the names
\* an editor may have entered in the CMS.
ArItems(names) ==
    {[isNull |-> TRUE, name |-> Undefined]} \cup {[isNull |-> FALSE, name |-> n] : n \in names}

\* item?.name || null
NameOrNull(item) == IF item.isNull \/ item.name = "" THEN Null ELSE item.name

\* audienceName.toLowerCase().replace(/[^a-zA-Z0-9-_]/g, ''), on the names above.
Sanitize(name) ==
    CASE name = "Enterprise" -> "enterprise"
      [] name = "Small Business" -> "smallbusiness"
      [] OTHER -> name

\* updateParams: the query of the URL handed to router.push (region is
\* written and read back unchanged, its spaces as %20).
UpdateParams(path, audienceName, regionName) ==
    [path |-> path,
     audience |-> IF audienceName \in {Null, ""} THEN Null ELSE Sanitize(audienceName),
     region |-> IF regionName \in {Null, ""} THEN Null ELSE regionName]

\* The hook's refs and pending navigation with the provider as one value,
\* and the history entries of the calls made.
AR == [ps |-> PS, prevAudience |-> prevAudienceRef, prevRegion |-> prevRegionRef,
       pushed |-> arPushed, made |-> <<>>]

SetAR(h) ==
    /\ SetPS(h.ps)
    /\ prevAudienceRef' = h.prevAudience
    /\ prevRegionRef' = h.prevRegion
    /\ arPushed' = h.pushed
    /\ calls' = calls \o h.made

\* analytics.track from a helper, made only when analytics.isReady().
ArTrack(h, tracked, event, properties) ==
    IF tracked
    THEN [h EXCEPT !.ps = ProviderTrack(@, event, properties),
                   !.made = Append(@, Made(QTrack(event, properties)))]
    ELSE h

\* Variation: the new name is recorded only when the change was tracked.
SetAudienceCallKeepPrev(h, audience, path, params) ==
    LET newAudienceName == NameOrNull(audience)
        tracked == newAudienceName # h.prevAudience /\ IsReady
        t == ArTrack(h, tracked, "audience_changed",
                     [personalizationType |-> "audience",
                      audience |-> OrUndefined(newAudienceName),
                      previousAudience |-> OrUndefined(h.prevAudience), path |-> path])
    IN [t EXCEPT !.prevAudience = IF tracked THEN newAudienceName ELSE @,
                 !.pushed = <<UpdateParams(path, newAudienceName, params.region)>>]

\* setAudience, called in a render that read params from the URL.
SetAudienceCall(h, audience, path, params) ==
    LET newAudienceName == NameOrNull(audience)
        tracked == newAudienceName # h.prevAudience /\ IsReady
        t == ArTrack(h, tracked, "audience_changed",
                     [personalizationType |-> "audience",
                      audience |-> OrUndefined(newAudienceName),
                      previousAudience |-> OrUndefined(h.prevAudience), path |-> path])
    IN [t EXCEPT !.prevAudience = newAudienceName,
                 !.pushed = <<UpdateParams(path, newAudienceName, params.region)>>]

\* setRegion
SetRegionCall(h, region, path, params) ==
    LET newRegionName == NameOrNull(region)
        tracked == newRegionName # h.prevRegion /\ IsReady
        t == ArTrack(h, tracked, "region_changed",
                     [personalizationType |-> "region",
                      region |-> OrUndefined(newRegionName),
                      previousRegion |-> OrUndefined(h.prevRegion), path |-> path])
    IN [t EXCEPT !.prevRegion = newRegionName,
                 !.pushed = <<UpdateParams(path, params.audience, newRegionName)>>]

\* clearAudience (clearAll does the same for both in one call)
ClearAudienceCall(h, path) ==
    ArTrack(h, h.prevAudience \notin {Null, ""} /\ IsReady, "audience_changed",
            [personalizationType |-> "audience", audience |-> Undefined,
             previousAudience |-> h.prevAudience, path |-> path])

\* clearRegion
ClearRegionCall(h, path) ==
    ArTrack(h, h.prevRegion \notin {Null, ""} /\ IsReady, "region_changed",
            [personalizationType |-> "region", region |-> Undefined,
             previousRegion |-> h.prevRegion, path |-> path])

\* The component using the hook mounts on a URL: the refs start as the
\* URL's audience and region.
ArMount ==
    /\ ~arMounted
    /\ arMounted' = TRUE
    /\ \E a \in {Null, "enterprise", "Enterprise"}, r \in {Null, "North America"} :
         /\ arParams' = [audience |-> a, region |-> r]
         /\ prevAudienceRef' = a
         /\ prevRegionRef' = r
    /\ UNCHANGED <<arPushed, arLog, waitVars>>
    /\ UNCHANGED <<unmountCount, storageVars, uiVars, ptVars, serverVars>>
    /\ UNCHANGED <<envVars, queueVars, heroVars, trackVars>>

\* One call of a helper that ends with the hook as h.
ArCall(fn, name, h) ==
    /\ arMounted
    /\ Len(arLog) < MaxArCalls
    /\ SetAR(h)
    /\ arLog' = Append(arLog, [fn |-> fn, name |-> name, ready |-> IsReady])
    /\ UNCHANGED <<arMounted, arParams, waitVars>>
    /\ UNCHANGED <<unmountCount, storageVars, uiVars, ptVars, serverVars>>
    /\ UNCHANGED <<envVars, heroVars, trackVars>>

SetAudience ==
    \E audience \in ArItems({"", "Enterprise", "Small Business"}) :
        ArCall("setAudience", NameOrNull(audience),
               SetAudienceCall(AR, audience, pathname, arParams))

SetRegion ==
    \E region \in ArItems({"North America"}) :
        ArCall("setRegion", NameOrNull(region),
               SetRegionCall(AR, region, pathname, arParams))

ClearAudience ==
    ArCall("clearAudience", Null,
           [ClearAudienceCall(AR, pathname) EXCEPT
               !.prevAudience = Null,
               !.pushed = <<UpdateParams(pathname, Null, arParams.region)>>])

ClearRegion ==
    ArCall("clearRegion", Null,
           [ClearRegionCall(AR, pathname) EXCEPT
               !.prevRegion = Null,
               !.pushed = <<UpdateParams(pathname, arParams.audience, Null)>>])

ClearAll ==
    ArCall("clearAll", Null,
           [ClearRegionCall(ClearAudienceCall(AR, pathname), pathname) EXCEPT
               !.prevAudience = Null, !.prevRegion = Null,
               !.pushed = <<UpdateParams(pathname, Null, Null)>>])

\* The router finishes the navigation: the hook renders with the new URL.
ArNavigated ==
    /\ arMounted
    /\ arPushed # <<>>
    /\ arParams' = [audience |-> arPushed[1].audience, region |-> arPushed[1].region]
    /\ arPushed' = <<>>
    /\ UNCHANGED <<arMounted, prevAudienceRef, prevRegionRef, arLog, waitVars>>
    /\ UNCHANGED <<unmountCount, storageVars, uiVars, ptVars, serverVars>>
    /\ UNCHANGED <<envVars, queueVars, heroVars, trackVars>>

\* --------------------------------------------------------- waitForPostHog
\* maxAttempts = 10
DefaultMaxAttempts == 10

\* getPostHog() of posthog-provider.ts: the posthog-js module when it is
\* loaded, null otherwise.
GetPostHogModule == loaded

\* The closure of one waitForPostHog call with the histories it writes.
W == [maxAttempts |-> maxAttempts, attempts |-> attempts, timer |-> checkTimer,
      callbacks |-> callbackCalls, warnings |-> waitWarnings, checks |-> checks]

SetW(w) ==
    /\ maxAttempts' = w.maxAttempts
    /\ attempts' = w.attempts
    /\ checkTimer' = w.timer
    /\ callbackCalls' = w.callbacks
    /\ waitWarnings' = w.warnings
    /\ checks' = w.checks

\* Variation: check re-arms itself whenever PostHog is not available.
CheckNoLimit(w, at) ==
    LET n == w.attempts + 1
        c == [w EXCEPT !.attempts = n,
                       !.checks = Append(@, [at |-> at, found |-> GetPostHogModule])]
    IN IF GetPostHogModule THEN [c EXCEPT !.callbacks = @ + 1]
       ELSE [c EXCEPT !.timer = TRUE]

\* check, run at ms after the call of waitForPostHog.
Check(w, at) ==
    LET n == w.attempts + 1
        c == [w EXCEPT !.attempts = n,
                       !.checks = Append(@, [at |-> at, found |-> GetPostHogModule])]
    IN IF GetPostHogModule THEN [c EXCEPT !.callbacks = @ + 1]
       ELSE IF n < w.maxAttempts THEN [c EXCEPT !.timer = TRUE]
       ELSE [c EXCEPT !.warnings = @ + 1]

\* waitForPostHog(callback, maxAttempts): attempts = 0, then the first check.
WaitForPostHog ==
    /\ checks = <<>>
    /\ \E m \in (0..MaxWaitAttempts) \cup {DefaultMaxAttempts} :
         SetW(Check([W EXCEPT !.maxAttempts = m, !.attempts = 0], 0))
    /\ UNCHANGED <<arVars, unmountCount, storageVars, uiVars, ptVars, serverVars>>
    /\ UNCHANGED <<envVars, queueVars, heroVars, trackVars>>

\* The timer set by check fires, 100 ms after the check that set it.
CheckTimerFire ==
    /\ checkTimer
    /\ SetW(Check([W EXCEPT !.timer = FALSE], checks[Len(checks)].at + 100))
    /\ UNCHANGED <<arVars, unmountCount, storageVars, uiVars, ptVars, serverVars>>
    /\ UNCHANGED <<envVars, queueVars, heroVars, trackVars>>

\* ------------------------------------------------ server-side PostHog client
\* posthogClient === null
NoClient == 0

\* The module state of get-client.ts and what the client has captured.
Server == [initAttempted |-> initAttempted, posthogClient |-> posthogClient,
           constructed |-> constructed, serverLog |-> serverLog]

\* Variation: the client is constructed on every call that finds credentials.
GetPostHogClientEveryCall(sv) ==
    IF ~keySet \/ ~hostSet
    THEN [sv |-> [sv EXCEPT !.initAttempted = TRUE], result |-> NoClient]
    ELSE LET made == sv.constructed + 1
         IN [sv |-> [sv EXCEPT !.initAttempted = TRUE, !.posthogClient = made,
                               !.constructed = made],
             result |-> made]

\* getPostHogClient
GetPostHogClient(sv) ==
    IF sv.initAttempted THEN [sv |-> sv, result |-> sv.posthogClient]
    ELSE IF ~keySet \/ ~hostSet
    THEN [sv |-> [sv EXCEPT !.initAttempted = TRUE], result |-> NoClient]
    ELSE LET made == sv.constructed + 1
         IN [sv |-> [sv EXCEPT !.initAttempted = TRUE, !.posthogClient = made,
                               !.constructed = made],
             result |-> made]

\* How a call of the SDK can end: it returns (getFeatureFlag: a variant key, a
\* boolean or undefined), it throws, or its promise rejects.
SdkOutcomes ==
    {[kind |-> "returns", value |-> f] :
        f \in {FlagUndefined, FlagBool("false"), FlagString("variant-a")}}
        \cup {[kind |-> k, value |-> FlagUndefined] : k \in {"throws", "rejects"}}

\* Variation: no try/catch around the SDK call.
GetFeatureFlagVariantUncaught(sv, outcome) ==
    LET got == GetPostHogClient(sv)
    IN IF got.result = NoClient
       THEN [sv |-> got.sv, client |-> got.result, result |-> FlagUndefined,
             threw |-> FALSE, warned |-> FALSE]
       ELSE [sv |-> got.sv, client |-> got.result, result |-> outcome.value,
             threw |-> outcome.kind # "returns", warned |-> FALSE]

\* getFeatureFlagVariant: undefined without a client; the awaited value of
\* client.getFeatureFlag otherwise; an error thrown or a rejection is caught,
\* logged with console.warn and answered with undefined.
GetFeatureFlagVariant(sv, outcome) ==
    LET got == GetPostHogClient(sv)
    IN IF got.result = NoClient
       THEN [sv |-> got.sv, client |-> got.result, result |-> FlagUndefined,
             threw |-> FALSE, warned |-> FALSE]
       ELSE IF outcome.kind # "returns"
       THEN [sv |-> got.sv, client |-> got.result, result |-> FlagUndefined,
             threw |-> FALSE, warned |-> TRUE]
       ELSE [sv |-> got.sv, client |-> got.result, result |-> outcome.value,
             threw |-> FALSE, warned |-> FALSE]

\* trackEvent: nothing without a client; client.capture otherwise (not
\* awaited); an error it throws is caught and logged with console.warn.
TrackEvent(sv, event, distinctId, outcome) ==
    LET got == GetPostHogClient(sv)
    IN IF got.result = NoClient
       THEN [sv |-> got.sv, client |-> got.result, result |-> FlagUndefined,
             threw |-> FALSE, warned |-> FALSE]
       ELSE IF outcome.kind = "throws"
       THEN [sv |-> got.sv, client |-> got.result, result |-> FlagUndefined,
             threw |-> FALSE, warned |-> TRUE]
       ELSE [sv |-> [got.sv EXCEPT !.serverLog =
                        Append(@, [distinctId |-> distinctId, event |-> event])],
             client |-> got.result, result |-> FlagUndefined,
             threw |-> FALSE, warned |-> FALSE]

\* One call of a server helper ends as r: the module state and the history.
ServerCall(fn, outcome, r) ==
    /\ Len(serverCalls) < MaxServerCalls
    /\ initAttempted' = r.sv.initAttempted
    /\ posthogClient' = r.sv.posthogClient
    /\ constructed' = r.sv.constructed
    /\ serverLog' = r.sv.serverLog
    /\ serverCalls' = Append(serverCalls,
           [fn |-> fn, configured |-> Configured, outcome |-> outcome,
            client |-> r.client, result |-> r.result, threw |-> r.threw,
            warned |-> r.warned, captured |-> Len(r.sv.serverLog) - Len(serverLog)])
    /\ UNCHANGED <<phRequest, phRender>>
    /\ UNCHANGED <<unmountCount, storageVars, uiVars, ptVars, hookVars>>
    /\ UNCHANGED <<envVars, queueVars, heroVars, trackVars>>

CallGetPostHogClient ==
    LET got == GetPostHogClient(Server)
    IN ServerCall("getPostHogClient", [kind |-> "returns", value |-> FlagUndefined],
                  [sv |-> got.sv, client |-> got.result, result |-> FlagUndefined,
                   threw |-> FALSE, warned |-> FALSE])

CallGetFeatureFlagVariant ==
    \E outcome \in SdkOutcomes :
        ServerCall("getFeatureFlagVariant", outcome, GetFeatureFlagVariant(Server, outcome))

CallTrackEvent ==
    \E outcome \in {o \in SdkOutcomes : o.value = FlagUndefined /\ o.kind # "rejects"} :
        ServerCall("trackEvent", outcome,
                   TrackEvent(Server, "experiment_conversion", "anon_1", outcome))

\* process.env changes while the server runs.
ServerEnvChange ==
    /\ \E k \in BOOLEAN, h \in BOOLEAN :
         /\ <<k, h>> # <<keySet, hostSet>>
         /\ keySet' = k
         /\ hostSet' = h
    /\ UNCHANGED <<instrumented, windowPosthog, loaded>>
    /\ UNCHANGED exceptEnv

\* The state of the components outside AnalyticsProvider's trackers before
\* anything has mounted, with an empty localStorage, and the server's before
\* its first call, serving the request req.
InitAppWith(req) ==
    /\ unmountCount = 0
    /\ lsUserId = NoItem
    /\ lsFirstSeen = NoItem
    /\ lsSessionCount = NoItem
    /\ lsLastSession = NoItem
    /\ uiMounted = FALSE
    /\ identifiedRef = FALSE
    /\ lastPropertiesRef = <<>>
    /\ uiTimers = <<>>
    /\ ptMounted = FALSE
    /\ ptProps = NoProps
    /\ trackedRef = FALSE
    /\ ptTimers = <<>>
    /\ ptEmitted = 0
    /\ initAttempted = FALSE
    /\ posthogClient = NoClient
    /\ constructed = 0
    /\ serverLog = <<>>
    /\ serverCalls = <<>>
    /\ phRequest = req
    /\ phRender = [kind |-> "none"]
    /\ arMounted = FALSE
    /\ arParams = [audience |-> Null, region |-> Null]
    /\ prevAudienceRef = Null
    /\ prevRegionRef = Null
    /\ arPushed = <<>>
    /\ arLog = <<>>
    /\ maxAttempts = 0
    /\ attempts = 0
    /\ checkTimer = FALSE
    /\ callbackCalls = 0
    /\ waitWarnings = 0
    /\ checks = <<>>

InitApp == InitAppWith([kind |-> "none"])

\* ------------------------------------------------------------ Init / Next
InitEnv ==
    /\ keySet \in BOOLEAN
    /\ hostSet \in BOOLEAN
    /\ instrumented = FALSE
    /\ windowPosthog = FALSE
    /\ loaded = FALSE

InitQueue ==
    /\ eventQueue = <<>>
    /\ isFlushingQueue = FALSE
    /\ flushTimers = 0
    /\ sdkLog = <<>>
    /\ calls = <<>>

InitHero ==
    /\ heroStage = "request"
    /\ mainItem \in MainItems
    /\ listFetch = "notCalled"
    /\ heroWarnings = 0
    /\ allVariants = <<>>
    /\ hasMounted = FALSE
    /\ flagVariant = FlagUndefined
    /\ flagChanges = 0
    /\ view = NoView
    /\ exposureTimers = <<>>

\* The page as loaded, before AnalyticsProvider mounts.
InitTrack ==
    /\ now = 0
    /\ docVisible \in BOOLEAN
    /\ pathname = "/"
    /\ search = ""
    /\ locale = "en-us"
    /\ navCount = 0
    /\ analyticsMounted = FALSE
    /\ scrollTop = 0
    /\ scrollableHeight \in ScrollableHeights
    /\ scrollReached = {}
    /\ pageLoadTime = 0
    /\ debounceTimeout = FALSE
    /\ scrollEmitted = NoneEmitted(ScrollMilestones)
    /\ timeReached = {}
    /\ timeOnPage = 0
    /\ isVisible = TRUE
    /\ timeEmitted = NoneEmitted(TimeMilestones)
    /\ lastTrackedPath = ""
    /\ lastPageViewPath = ""
    /\ pvTimer = PvNone
    /\ isFirstPageView = TRUE
    /\ hookResets = 0

\* The trackers are not mounted where they are not under study.
InitTrackIdle == InitTrack /\ docVisible /\ scrollableHeight = 3

\* The hero's CMS content is fixed where the hero is not under study.
InitHeroIdle == InitHero /\ mainItem = CHOOSE m \in MainItems : TRUE

Init == InitEnv /\ InitQueue /\ InitHeroIdle /\ InitTrackIdle /\ InitApp

InitHeroSpec == InitEnv /\ InitQueue /\ InitHero /\ InitTrackIdle /\ InitApp

\* Both credentials set: for the trackers an unconfigured site behaves like a
\* configured one whose SDK never loads.
InitTrackSpec == InitEnv /\ Configured /\ InitQueue /\ InitHeroIdle /\ InitTrack /\ InitApp

InitScrollSpec == InitTrackSpec /\ docVisible

InitTimeSpec == InitTrackSpec /\ scrollableHeight = 3

NextScroll ==
    \/ InstrumentationClient
    \/ SdkLoaded
    \/ CheckAndFlushFire
    \/ Mount
    \/ Navigate
    \/ Scroll
    \/ Layout
    \/ DebounceFire

SpecScroll == InitScrollSpec /\ [][NextScroll]_vars

\* useTimeOnPage never reads the SDK's state: its events are handed to the
\* provider, which queues them here.
NextTime ==
    \/ Mount
    \/ Navigate
    \/ IntervalTick
    \/ VisibilityChange

SpecTime == InitTimeSpec /\ [][NextTime]_vars

NextNav ==
    \/ Mount
    \/ Navigate /\ pathname' = pathname
    \/ PvTimerFire
    \/ Scroll /\ scrollTop' = MaxScrollTop
    \/ DebounceFire
    \/ IntervalTick /\ timeOnPage < MaxNavTime
    \/ ClockTick
    \/ LocaleChange

\* The environment once instrumentation-client.ts has run with both
\* credentials and the SDK has loaded.
InitEnvLoaded ==
    /\ keySet = TRUE
    /\ hostSet = TRUE
    /\ instrumented = TRUE
    /\ windowPosthog = TRUE
    /\ loaded = TRUE

InitNavSpec ==
    /\ InitEnvLoaded /\ InitQueue /\ InitHeroIdle /\ InitTrack /\ InitApp
    /\ docVisible
    /\ scrollableHeight = 3

SpecNav == InitNavSpec /\ [][NextNav]_vars

NextHero ==
    \/ InstrumentationClient
    \/ SdkLoaded
    \/ ABTestHeroServer
    \/ Hydrate
    \/ MountEffect
    \/ FlagChange
    \/ ExposureTimerFire

SpecHero == InitHeroSpec /\ [][NextHero]_vars

\* The request is served, the page hydrates, effects run and timers fire.
FairSpecHero ==
    /\ SpecHero
    /\ WF_vars(ABTestHeroServer)
    /\ WF_vars(Hydrate)
    /\ WF_vars(MountEffect)
    /\ WF_vars(ExposureTimerFire)

NextQueue ==
    \/ InstrumentationClient
    \/ SdkLoaded
    \/ CallIdentify
    \/ CallTrack
    \/ CallPage
    \/ CallGroup
    \/ CheckAndFlushFire

SpecQueue == Init /\ [][NextQueue]_vars

\* The browser fires every armed timer.
FairSpecQueue == SpecQueue /\ WF_vars(CheckAndFlushFire)

\* The environment once instrumentation-client.ts has run with both
\* credentials, the SDK still loading.
InitEnvInstrumented ==
    /\ keySet = TRUE
    /\ hostSet = TRUE
    /\ instrumented = TRUE
    /\ windowPosthog = TRUE
    /\ loaded = FALSE

\* The hero after a request without a variants list and the first client
\* render, the flag hook returning the cached value "control".
InitHeroHydrated ==
    LET main == [experimentKey |-> "hero-test", heading |-> "Main heading",
                 imagePosition |-> Undefined, variantsRef |-> Undefined]
        served == ABTestHero(main, TRUE, [kind |-> "noItems", items |-> <<>>])
    IN /\ heroStage = "hydrated"
       /\ mainItem = main
       /\ listFetch = served.listFetch
       /\ heroWarnings = served.warnings
       /\ allVariants = served.allVariants
       /\ hasMounted = FALSE
       /\ flagVariant = FlagString("control")
       /\ flagChanges = 0
       /\ view = Render(served.allVariants, FALSE, FlagString("control"))
       /\ exposureTimers = <<>>

InitUnmountSpec ==
    InitEnvInstrumented /\ InitQueue /\ InitHeroHydrated /\ InitTrackIdle /\ InitApp

\* Components mount and unmount while the SDK loads.
NextUnmount ==
    \/ SdkLoaded
    \/ Mount
    \/ Unmount
    \/ PvTimerFire
    \/ DebounceFire
    \/ IntervalTick /\ timeOnPage < 1
    \/ UiMount /\ lsUserId' = Item("anon_1")
    \/ UiUnmount
    \/ UiTimerFire
    \/ PtMount /\ ptProps' = PersonalizedProps
    \/ PtUnmount
    \/ PtTimerFire
    \/ MountEffect
    \/ HeroUnmount
    \/ ExposureTimerFire

SpecUnmount == InitUnmountSpec /\ [][NextUnmount]_vars

\* ----------------------------------------------------------------- C1
SeqToBag(s) ==
    LET range == {s[i] : i \in DOMAIN s}
    IN [x \in range |-> Cardinality({i \in DOMAIN s : s[i] = x})]

SdkCallsOf(evs) == [i \in DOMAIN evs |-> SdkCallOf(evs[i])]
CallEvents == [i \in DOMAIN calls |-> calls[i].ev]

\* A call made while PostHog is unavailable is appended to eventQueue as made.
QueuedCallIsAppended ==
    (/\ calls' # calls
     /\ calls'[Len(calls')].queued)
    => eventQueue' = Append(eventQueue, calls'[Len(calls')].ev)

\* Every call made is either still queued or has reached the SDK, exactly
\* once, as the SDK call of its own kind and arguments.
NothingLostOrDuplicated ==
    SeqToBag(SdkCallsOf(CallEvents)) = SeqToBag(sdkLog) (+) SeqToBag(SdkCallsOf(eventQueue))

QueueDrained == eventQueue = <<>> /\ ~isFlushingQueue

\* C1: calls made while the SDK is not loaded are appended to eventQueue; none
\* is lost or duplicated; once the SDK is loaded the queue is eventually
\* flushed to the SDK, leaving eventQueue empty and isFlushingQueue false.
C1_QueueLosesNothing ==
    /\ [][QueuedCallIsAppended]_vars
    /\ []NothingLostOrDuplicated
    /\ [](GetPostHog => <>[](QueueDrained /\ Len(sdkLog) = Len(calls)))

\* Reached: calls were queued, the SDK loaded, and the flush delivered them.
C1_Witness ==
    /\ Cardinality({i \in DOMAIN calls : calls[i].queued}) >= 2
    /\ GetPostHog
    /\ QueueDrained
    /\ Len(sdkLog) = Len(calls)

\* ----------------------------------------------------------------- C6
\* C6: without both credentials PostHog is never initialised, window.posthog
\* is never set, analytics.isReady() is false, and no identify/track/page/
\* group call ever reaches the SDK.
C6_MissingCredentialsDisableTracking ==
    ~Configured =>
        /\ ~windowPosthog
        /\ ~loaded
        /\ ~IsReady
        /\ sdkLog = <<>>

\* Reached: unconfigured, instrumentation has run and calls have been made.
C6_Witness ==
    /\ ~Configured
    /\ instrumented
    /\ Len(calls) >= 2
    /\ {calls[i].ev.type : i \in DOMAIN calls} = {"identify", "track"}

\* ----------------------------------------------------------------- C2
\* The control variant as the CMS main content item defines it.
MainControl ==
    [variant |-> "control", heading |-> mainItem.heading,
     imagePosition |-> IF mainItem.imagePosition = Undefined THEN "right"
                       ELSE mainItem.imagePosition]

ShowsContentOf(v) ==
    /\ view.kind = "content"
    /\ view.dataVariant = v.variant
    /\ view.heading = v.heading
    /\ view.imagePosition = IF v.imagePosition = Undefined THEN "right" ELSE v.imagePosition

\* C2: every render made while hasMounted is false (server render, first
\* client render) shows the control variant's content and data-variant,
\* whatever the flag hook returns.
C2_ControlBeforeHydration ==
    (heroStage \in {"ssr", "hydrated"} /\ ~hasMounted) => ShowsContentOf(MainControl)

\* Reached: first client render with a cached flag naming a CMS variant.
C2_Witness ==
    /\ heroStage = "hydrated"
    /\ ~hasMounted
    /\ flagVariant = FlagString("variant-a")
    /\ \E i \in DOMAIN allVariants : allVariants[i].variant = "variant-a"
    /\ view.dataVariant = "control"

\* ----------------------------------------------------------------- C3
\* C3: when the flag never gets a value, the mounted hero eventually renders,
\* and keeps rendering, the control variant's content.
C3_UndefinedFlagFallsBackToControl ==
    [](flagVariant = FlagUndefined)
        => <>[](heroStage = "failed" \/ (hasMounted /\ ShowsContentOf(MainControl)))

\* ----------------------------------------------------------------- C7
\* C7: when getContentList throws, ABTestHero logs one warning, lets no error
\* escape, and passes exactly the control variant built from the main item.
C7_FailedVariantFetchFallsBack ==
    listFetch = "throws" =>
        /\ heroStage # "failed"
        /\ heroWarnings = 1
        /\ allVariants = <<MainControl>>

\* Reached: the list fetch threw and the hero was rendered from the result.
C7_Witness ==
    /\ listFetch = "throws"
    /\ heroStage = "client"
    /\ view.kind = "content"

\* ----------------------------------------------------------------- C8
\* The entry the claim names for a defined flag value f: the first entry of
\* allVariants whose variant name is f, the control variant when there is none.
NamedBy(f) ==
    LET hits == {i \in DOMAIN allVariants :
                    f.kind = "string" /\ allVariants[i].variant = f.val}
    IN IF hits = {} THEN MainControl
       ELSE allVariants[CHOOSE i \in hits : \A j \in hits : i <= j]

\* C8: once mounted with a defined flag value f, the hero shows the first
\* entry of allVariants named f, and the control variant when no entry has
\* that name (f = false and f = true included).
C8_VariantSelectedByFlag ==
    (heroStage = "client" /\ hasMounted /\ flagVariant # FlagUndefined)
        => ShowsContentOf(NamedBy(flagVariant))

\* Reached: two CMS variants share the flag's name and the first is shown.
C8_Witness ==
    /\ heroStage = "client"
    /\ hasMounted
    /\ flagVariant = FlagString("variant-a")
    /\ Len(allVariants) = 3
    /\ allVariants[2].variant = "variant-a"
    /\ allVariants[3].variant = "variant-a"
    /\ allVariants[2] # allVariants[3]
    /\ view.heading = allVariants[2].heading

\* ----------------------------------------------------------------- C4
\* The scroll_milestone calls made so far for depth m, over all pages.
ScrollCallsFor(m) ==
    Cardinality({i \in DOMAIN calls :
                    /\ calls[i].ev.type = "track"
                    /\ calls[i].ev.event = "scroll_milestone"
                    /\ calls[i].ev.properties.depth = m})

\* C4: since the last reset of useScrollTracking (mount or full-path change)
\* at most one scroll_milestone event has been emitted for each of 25, 50, 75
\* and 100, and exactly the emitted milestones are in the reached set.
C4_ScrollMilestoneOncePerPage ==
    \A m \in DOMAIN scrollEmitted :
        /\ scrollEmitted[m] <= 1
        /\ scrollEmitted[m] = 1 <=> m \in scrollReached

\* Reached: 100 was emitted on an earlier page and once again on this one,
\* where the debounced check has run at the bottom of the page.
C4_Witness ==
    /\ hookResets >= 2
    /\ ScrollCallsFor(100) >= 2
    /\ scrollEmitted[100] = 1
    /\ GetScrollDepth(scrollTop, scrollableHeight) = 100
    /\ ~debounceTimeout

\* ----------------------------------------------------------------- C5
\* C5: since the last reset of useTimeOnPage at most one time_milestone event
\* has been emitted for each of 30, 60, 120 and 300, and exactly the emitted
\* milestones are in the reached set.
C5_TimeMilestoneOncePerPage ==
    \A m \in DOMAIN timeEmitted :
        /\ timeEmitted[m] <= 1
        /\ timeEmitted[m] = 1 <=> m \in timeReached

\* Reached: after a navigation, 30 and 60 were emitted once each on the new
\* page and further ticks have passed, the tab having been hidden meanwhile.
C5_Witness ==
    /\ hookResets >= 2
    /\ timeOnPage > 60
    /\ timeEmitted[30] = 1
    /\ timeEmitted[60] = 1
    /\ ~docVisible

\* ----------------------------------------------------------------- C9
\* C9: an interval tick at which the document is hidden leaves timeOnPage and
\* the reached milestones unchanged and emits no time_milestone event.
C9_HiddenTicksCountNothing ==
    [][(IntervalTick /\ ~docVisible)
          => UNCHANGED <<timeOnPage, timeReached, timeEmitted, calls>>]_vars

\* ---------------------------------------------------------------- C10
FullPathChanges == FullPath(pathname', search') # FullPath(pathname, search)

\* Both hooks start over: reached sets empty, pageLoadTime = now, timeOnPage = 0.
HooksReset ==
    /\ scrollReached' = {}
    /\ pageLoadTime' = now'
    /\ timeReached' = {}
    /\ timeOnPage' = 0

\* PageviewTracker's effect takes the step for a new page view: it schedules
\* trackPageView for a full path other than the one its timer was set for.
TreatedAsNewPageView ==
    /\ pvTimer'.kind = "initial"
    /\ pvTimer'.fullPath # pvTimer.fullPath

\* C10: every change of the full path resets both hooks, and the hooks are
\* reset on exactly the steps that PageviewTracker treats as a new page view.
C10_ResetExactlyOnNewPageView ==
    [][/\ FullPathChanges => HooksReset
       /\ (hookResets' # hookResets) <=> TreatedAsNewPageView]_vars

NextServer ==
    \/ CallGetPostHogClient
    \/ CallGetFeatureFlagVariant
    \/ CallTrackEvent
    \/ ServerEnvChange

SpecServer == Init /\ [][NextServer]_vars

\* A visitor browses, leaves and comes back, the SDK being loaded, while
\* UserIdentifier is mounted, unmounted and mounted again.
NextUser ==
    \/ Mount
    \/ Navigate /\ pathname' = pathname
    \/ LocaleChange
    \/ UiMount
    \/ UiUnmount
    \/ Idle

SpecUser == InitNavSpec /\ [][NextUser]_vars

\* Requests for a page showing PersonalizedBackgroundHero.
InitPersonalizedSpec ==
    /\ InitEnvLoaded /\ InitQueue /\ InitHeroIdle /\ InitTrackIdle
    /\ \E req \in PhRequests : InitAppWith(req)

SpecPersonalized == InitPersonalizedSpec /\ [][PhServe]_vars

\* PageviewTracker while the SDK loads: navigations, locale changes, an
\* unmount and a second mount.
NextPv ==
    \/ SdkLoaded
    \/ Mount
    \/ Unmount
    \/ Navigate
    \/ LocaleChange
    \/ PvTimerFire

SpecPv == InitUnmountSpec /\ [][NextPv]_vars

\* The browser fires every armed timeout.
FairSpecPv == SpecPv /\ WF_vars(PvTimerFire)

\* PersonalizationTracker while the SDK loads: prop changes, retries, an
\* unmount and a second mount.
NextPt ==
    \/ SdkLoaded
    \/ PtMount
    \/ PtPropsChange
    \/ PtUnmount
    \/ PtTimerFire

SpecPt == InitUnmountSpec /\ [][NextPt]_vars

\* ---------------------------------------------------------------- C11
\* A timer fires that was started by a component instance which has since
\* unmounted.
DeadTimerFires ==
    \/ PvTimerFire /\ ~analyticsMounted
    \/ DebounceFire /\ ~analyticsMounted
    \/ IntervalTick /\ ~analyticsMounted
    \/ UiTimerFire /\ ~Head(uiTimers).live
    \/ PtTimerFire /\ ~Head(ptTimers).live
    \/ ExposureTimerFire /\ heroStage = "unmounted"

\* C11: once a tracking component or hook (PageviewTracker, useScrollTracking,
\* useTimeOnPage, UserIdentifier, PersonalizationTracker, ABTestHeroClient)
\* has unmounted, none of the timeouts or intervals it started fires any more:
\* it makes no analytics call and schedules no further retry.
C11_UnmountCancelsTimers == [][~DeadTimerFires]_vars

C13_ClientInitialisedOnce ==
    /\ constructed <= 1
    /\ \A i \in DOMAIN serverCalls :
         /\ serverCalls[i].client = serverCalls[1].client
         /\ (serverCalls[i].client = NoClient) <=> ~serverCalls[1].configured

\* The first call found a credential missing, a later one found both set.
C13_Witness ==
    /\ Len(serverCalls) >= 2
    /\ ~serverCalls[1].configured
    /\ serverCalls[Len(serverCalls)].configured

\* ---------------------------------------------------------------- C14
\* The user IDs handed to analytics.identify so far, pending retries included.
IdentifiedIds ==
    {calls[i].ev.userId : i \in {j \in DOMAIN calls : calls[j].ev.type = "identify"}}
        \cup {uiTimers[i].userId : i \in DOMAIN uiTimers}

\* C14: getOrCreateUserId generates and stores an ID only when
\* analytics_user_id is absent and never overwrites a stored ID, so every call
\* returns the one stored ID, across mounts.
C14_UserIdPersists ==
    [][/\ lsUserId.present => lsUserId' = lsUserId
       /\ lsUserId'.present => IdentifiedIds' \subseteq {lsUserId'.value}
       /\ ~lsUserId'.present => IdentifiedIds' = {}]_vars

\* UserIdentifier has been mounted twice and has identified the user twice.
C14_Witness ==
    /\ unmountCount = 1
    /\ uiMounted
    /\ Cardinality({i \in DOMAIN calls : calls[i].ev.type = "identify"}) >= 2

\* ---------------------------------------------------------------- C15
\* A step on which UserIdentifier's effect runs, calling getSessionCount.
UiEffectRuns == UiMount \/ (uiMounted /\ (Navigate \/ LocaleChange))

StoredCount(item) == ParseInt(DecimalOr(item, <<0>>))

\* C15: each call of getSessionCount increases the stored session count by
\* exactly 1 when more than 30 minutes have passed since the stored last
\* session (or none is stored) and leaves it unchanged otherwise; every call
\* sets the last session to the current time; the count returned is at least
\* 1 and never decreases. Nothing else writes the two items.
C15_SessionAfterThirtyMinutes ==
    [][IF UiEffectRuns
       THEN /\ StoredCount(lsSessionCount') =
                 IF ~lsLastSession.present
                    \/ DateNow - StoredCount(lsLastSession) > 30 * 60 * 1000
                 THEN StoredCount(lsSessionCount) + 1
                 ELSE StoredCount(lsSessionCount)
            /\ lsLastSession' = Item(DecimalString(DateNow))
            /\ StoredCount(lsSessionCount') >= 1
            /\ \A i \in DOMAIN calls' :
                 calls'[i].ev.type = "identify" =>
                   /\ calls'[i].ev.traits.sessionCount >= 1
                   /\ calls'[i].ev.traits.sessionCount <= StoredCount(lsSessionCount')
       ELSE UNCHANGED <<lsSessionCount, lsLastSession>>]_vars

\* The visitor has come back after more than 30 minutes and has been
\* identified in the first session and in the second.
C15_Witness ==
    /\ StoredCount(lsSessionCount) = 2
    /\ \E i, j \in DOMAIN calls :
         /\ calls[i].ev.type = "identify" /\ calls[i].ev.traits.sessionCount = 1
         /\ calls[j].ev.type = "identify" /\ calls[j].ev.traits.sessionCount = 2

\* ---------------------------------------------------------------- C16
\* The personalized items of the request that match: the search parameters
\* resolve to an audience content ID and the item has it as its
\* audienceDropdown.contentID.
PhMatches ==
    {i \in DOMAIN phRequest.items :
        /\ phRequest.hasSearchParams
        /\ phRequest.audienceContentID # Undefined
        /\ phRequest.items[i].audienceDropdown = phRequest.audienceContentID}

\* C16: PersonalizedBackgroundHero shows a personalized item exactly when the
\* search parameters resolve to an audience content ID that some personalized
\* hero item has as its audienceDropdown.contentID; then each of the six
\* fields is the item's value when non-empty and the default otherwise, and
\* isPersonalized is true; in every other case all six fields are the
\* defaults and isPersonalized is false.
C16_PersonalizedOnlyOnMatch ==
    phRender.kind = "rendered" =>
        IF PhMatches # {}
        THEN /\ phRender.isPersonalized
             /\ \E i \in PhMatches :
                  \A f \in PhFields :
                     phRender.selectedContent[f] =
                        IF phRequest.items[i].fields[f] # ""
                        THEN phRequest.items[i].fields[f] ELSE PhDefault(f)
        ELSE /\ ~phRender.isPersonalized
             /\ \A f \in PhFields : phRender.selectedContent[f] = PhDefault(f)

\* A matching item with an empty heading was rendered with the default
\* heading and its own description, behind an item of another audience.
C16_Witness ==
    /\ phRender.kind = "rendered"
    /\ Len(phRequest.items) = 2
    /\ PhMatches = {2}
    /\ phRequest.items[1].audienceDropdown \notin {Undefined, phRequest.audienceContentID}
    /\ phRequest.items[2].fields["heading"] = ""
    /\ phRender.selectedContent["heading"] = PhDefault("heading")
    /\ phRender.selectedContent["description"] = phRequest.items[2].fields["description"]
    /\ phRender.selectedContent["description"] # ""

\* ---------------------------------------------------------------- C17
\* A step on which a page view is emitted.
PageViewStep ==
    /\ Len(calls') = Len(calls) + 1
    /\ calls'[Len(calls')].ev.type = "page"

\* A step on which PageviewTracker's effect runs.
PvEffectRuns == Mount \/ Navigate \/ LocaleChange

\* C17 as stated: a pending page view is emitted once the SDK is ready and the
\* user stays; an effect run whose full path equals the last tracked path
\* schedules none; and no two consecutive page views carry the same full path.
C17_NoTwoConsecutivePageViewsOnAPath ==
    /\ (pvTimer.kind # "none" /\ IsReady) ~> (pvTimer.kind = "none")
    /\ [][/\ (PvEffectRuns /\ FullPath(pathname', search') = lastTrackedPath')
               => pvTimer'.kind = "none"
          /\ PageViewStep => pvTimer.fullPath # lastPageViewPath]_vars

\* C17, for one mounted instance of PageviewTracker: a pending page view is
\* emitted once the SDK is ready and the user stays, and the emission leaves
\* nothing pending; an effect run whose full path equals the path the
\* instance tracked last schedules none; and no page view carries the full
\* path of the page view the same instance emitted before it.
C17_OnePageViewPerNewPath ==
    /\ (pvTimer.kind # "none" /\ IsReady) ~> (pvTimer.kind = "none")
    /\ [][/\ (PvEffectRuns /\ FullPath(pathname', search') = lastTrackedPath')
               => pvTimer'.kind = "none"
          /\ PageViewStep =>
               /\ pvTimer.fullPath # lastTrackedPath
               /\ lastTrackedPath' = pvTimer.fullPath
               /\ pvTimer'.kind = "none"]_vars

\* Two page views of one instance, for different full paths, and a locale
\* change on the second path that scheduled nothing.
C17_Witness ==
    /\ unmountCount = 0
    /\ Len(calls) = 2
    /\ navCount = 2
    /\ locale # "en-us"
    /\ lastTrackedPath = FullPath(pathname, search)
    /\ pvTimer.kind = "none"

\* ---------------------------------------------------------------- C18
\* C18: a page view pending when the path changes or the component unmounts
\* is never sent: whatever is pending belongs to the mounted component's
\* current path and locale, and every page view emitted is for the path whose
\* effect is currently active.
C18_PendingPageViewIsCurrent ==
    [][/\ pvTimer'.kind # "none" =>
            /\ analyticsMounted'
            /\ pvTimer'.pathname = pathname'
            /\ pvTimer'.fullPath = FullPath(pathname', search')
            /\ pvTimer'.locale = locale'
       /\ PageViewStep =>
            /\ analyticsMounted
            /\ calls'[Len(calls')].ev.name = pathname
            /\ calls'[Len(calls')].ev.properties.path = pathname
            /\ calls'[Len(calls')].ev.properties.locale = locale
            /\ lastTrackedPath' = FullPath(pathname, search)]_vars

\* The only page view sent is for a page navigated to while the page view of
\* the initial path was pending, and a later one was pending at the unmount.
C18_Witness ==
    /\ Len(calls) = 1
    /\ calls[1].ev.name = "/blog"
    /\ navCount = 2
    /\ unmountCount = 1
    /\ lastTrackedPath # FullPath(pathname, search)

\* ---------------------------------------------------------------- C19
\* C19: only the page view for the path the browser loaded ("/", without a
\* query) carries loadTime, at most one page view per page load does, and no
\* page view produced by a client-side navigation to another path does.
C19_LoadTimeOnlyForInitialLoad ==
    [][(PageViewStep /\ calls'[Len(calls')].ev.properties.loadTime # Undefined) =>
          /\ pvTimer.fullPath = FullPath("/", "")
          /\ \A i \in DOMAIN calls : calls[i].ev.properties.loadTime = Undefined]_vars

\* ---------------------------------------------------------------- C20
\* C20: over the lifetime of one mounted instance PersonalizationTracker emits
\* at most one personalization event, whatever prop changes and retries
\* occur, and none while both audience and region are null or undefined.
C20_OnceAndOnlyIfPersonalized ==
    [][ptEmitted' > ptEmitted =>
          /\ ptEmitted' = 1
          /\ ~(/\ ptProps'.audience \in {Null, Undefined}
               /\ ptProps'.region \in {Null, Undefined})]_vars

\* ---------------------------------------------------------------- C21
\* One mounted PersonalizationTracker while the SDK loads: prop changes and
\* retries.
NextPtMounted ==
    \/ SdkLoaded
    \/ PtMount
    \/ PtPropsChange
    \/ PtTimerFire

SpecPtMounted == InitUnmountSpec /\ [][NextPtMounted]_vars

\* A step in which PersonalizationTracker emits its event.
PtEmits ==
    /\ Len(calls') = Len(calls) + 1
    /\ calls'[Len(calls')].ev.type = "track"
    /\ calls'[Len(calls')].ev.event \in
           {"personalized_content_viewed", "personalization_applied"}

\* The props of the effect run whose trackPersonalization emits in this step:
\* those of the retry that fires, else those of the render that ran the effect.
PtRunProps ==
    IF Len(ptTimers) > 0 /\ ptTimers' = Tail(ptTimers) THEN Head(ptTimers).props
    ELSE ptProps'

\* C21: the event PersonalizationTracker emits is personalized_content_viewed
\* when isPersonalized is true and personalization_applied when it is false,
\* and its personalizationType is 'both' exactly when audience and region are
\* both given (neither null nor undefined), 'region' when only region is given
\* and 'audience' when only audience is given.
C21_EventAndTypeFollowProps ==
    [][PtEmits =>
          LET p == PtRunProps
              e == calls'[Len(calls')].ev
              hasAudience == p.audience \notin {Null, Undefined}
              hasRegion == p.region \notin {Null, Undefined}
          IN /\ e.event = "personalized_content_viewed" <=> p.isPersonalized
             /\ e.event = "personalization_applied" <=> ~p.isPersonalized
             /\ e.properties.personalizationType = "both" <=> (hasAudience /\ hasRegion)
             /\ (hasRegion /\ ~hasAudience) => e.properties.personalizationType = "region"
             /\ (hasAudience /\ ~hasRegion) => e.properties.personalizationType = "audience"]_vars

\* Two effect runs have emitted: default content under a region only, and
\* personalized content under an audience and a region.
C21_Witness ==
    /\ \E i \in DOMAIN calls :
          /\ calls[i].ev.type = "track"
          /\ calls[i].ev.event = "personalization_applied"
          /\ calls[i].ev.properties.personalizationType = "region"
          /\ calls[i].ev.properties.audience = Undefined
    /\ \E i \in DOMAIN calls :
          /\ calls[i].ev.type = "track"
          /\ calls[i].ev.event = "personalized_content_viewed"
          /\ calls[i].ev.properties.personalizationType = "both"

\* ---------------------------------------------------------------- C22
\* UserIdentifier while the SDK loads: navigations and locale changes re-run
\* its effect, retries fire, an unmount and a second mount.
NextUi ==
    \/ SdkLoaded
    \/ Mount
    \/ Navigate
    \/ LocaleChange
    \/ UiMount
    \/ UiUnmount
    \/ UiTimerFire

SpecUi == InitUnmountSpec /\ [][NextUi]_vars

\* A step in which analytics.identify is called, and the (audience, region,
\* locale) triple of that call.
IdentifyStep ==
    /\ Len(calls') = Len(calls) + 1
    /\ calls'[Len(calls')].ev.type = "identify"

IdentifiedTriple ==
    LET traits == calls'[Len(calls')].ev.traits
    IN <<traits.audience, traits.region, traits.locale>>

\* C22: within the first mounted instance of UserIdentifier, analytics.identify
\* is called only when no identify of the instance has succeeded yet or the
\* (audience, region, locale) triple differs from that of the last successful
\* identify.
C22_IdentifyOnlyWhenNewOrChanged ==
    [][(IdentifyStep /\ unmountCount' = 0) =>
          \/ ~identifiedRef
          \/ IdentifiedTriple # lastPropertiesRef]_vars

\* ---------------------------------------------------------------- C23
\* A step in which ABTestHeroClient emits experiment_exposure.
ExposureStep ==
    /\ Len(calls') = Len(calls) + 1
    /\ calls'[Len(calls')].ev.type = "track"
    /\ calls'[Len(calls')].ev.event = "experiment_exposure"

\* C23: experiment_exposure is emitted only when the component has mounted,
\* experimentKey is non-empty and the flag value is defined, and the variant
\* field of the event is the name of the variant the component renders for
\* that flag value.
C23_ExposureOnlyForDisplayedVariant ==
    [][ExposureStep =>
          /\ hasMounted'
          /\ mainItem.experimentKey # ""
          /\ flagVariant' # FlagUndefined
          /\ view'.kind = "content"
          /\ calls'[Len(calls')].ev.properties.variant = view'.dataVariant]_vars

NextAr ==
    \/ SdkLoaded
    \/ ArMount
    \/ SetAudience
    \/ SetRegion
    \/ ClearAudience
    \/ ClearRegion
    \/ ClearAll
    \/ ArNavigated

SpecAr == InitUnmountSpec /\ [][NextAr]_vars

\* A step that is a call of the helper fn, and the events it emitted.
ArStep(fn) ==
    /\ Len(arLog') = Len(arLog) + 1
    /\ arLog'[Len(arLog')].fn = fn

ArEmitted == SubSeq(calls', Len(calls) + 1, Len(calls'))

\* C25: setAudience (setRegion) emits audience_changed (region_changed)
\* exactly when the new name differs from the recorded previous name and
\* analytics is ready, one event carrying the new and the recorded previous
\* name; in every case it records the new name as the previous one and hands
\* router.push the URL with the parameter updated.
C25_ChangeTrackedOnChangeOnly ==
    [][/\ ArStep("setAudience") =>
            LET name == arLog'[Len(arLog')].name
            IN /\ (Len(ArEmitted) > 0) <=> (name # prevAudienceRef /\ IsReady)
               /\ Len(ArEmitted) <= 1
               /\ \A i \in DOMAIN ArEmitted :
                     /\ ArEmitted[i].ev.event = "audience_changed"
                     /\ ~ArEmitted[i].queued
                     /\ ArEmitted[i].ev.properties.audience = OrUndefined(name)
                     /\ ArEmitted[i].ev.properties.previousAudience =
                            OrUndefined(prevAudienceRef)
               /\ prevAudienceRef' = name
               /\ prevRegionRef' = prevRegionRef
               /\ Len(arPushed') = 1
               /\ arPushed'[1].path = pathname
               /\ arPushed'[1].region = arParams.region
               /\ (name = Null) <=> (arPushed'[1].audience = Null)
       /\ ArStep("setRegion") =>
            LET name == arLog'[Len(arLog')].name
            IN /\ (Len(ArEmitted) > 0) <=> (name # prevRegionRef /\ IsReady)
               /\ Len(ArEmitted) <= 1
               /\ \A i \in DOMAIN ArEmitted :
                     /\ ArEmitted[i].ev.event = "region_changed"
                     /\ ~ArEmitted[i].queued
                     /\ ArEmitted[i].ev.properties.region = OrUndefined(name)
                     /\ ArEmitted[i].ev.properties.previousRegion =
                            OrUndefined(prevRegionRef)
               /\ prevRegionRef' = name
               /\ prevAudienceRef' = prevAudienceRef
               /\ Len(arPushed') = 1
               /\ arPushed'[1].path = pathname
               /\ (arPushed'[1].audience = Null) <=> (arParams.audience = Null)
               /\ arPushed'[1].region = name]_vars

\* Reached: an audience chosen while analytics was not ready went unreported
\* and a later choice of another audience was reported against it.
C25_Witness ==
    /\ Len(arLog) >= 2
    /\ arLog[1].fn = "setAudience" /\ ~arLog[1].ready /\ arLog[1].name = "Enterprise"
    /\ arLog[2].fn = "setAudience" /\ arLog[2].ready
    /\ \E i \in DOMAIN calls :
          /\ calls[i].ev.type = "track"
          /\ calls[i].ev.event = "audience_changed"
          /\ calls[i].ev.properties.previousAudience = "Enterprise"
          /\ calls[i].ev.properties.audience = "Small Business"
    /\ \A i \in DOMAIN calls : calls[i].ev.properties.audience # "Enterprise"

\* ---------------------------------------------------------------- C26
\* One call of waitForPostHog while the SDK is initialised and loads, or
\* never does.
NextWait ==
    \/ InstrumentationClient
    \/ SdkLoaded
    \/ WaitForPostHog
    \/ CheckTimerFire

SpecWait == Init /\ [][NextWait]_vars

\* The browser fires every armed timer.
FairSpecWait == SpecWait /\ WF_vars(CheckTimerFire)

\* waitForPostHog has been called with maxAttempts >= 1.
WaitCalled == checks # <<>> /\ maxAttempts >= 1

\* The checks made so far are at most maxAttempts, 100 ms apart, and only the
\* last one can have found the SDK; callback has run once if it did, and not
\* at all otherwise; the warning is logged once when maxAttempts checks found
\* nothing; a further check is scheduled only while neither has happened.
WaitBounded ==
    WaitCalled =>
        LET last == checks[Len(checks)]
        IN /\ Len(checks) = attempts
           /\ attempts <= maxAttempts
           /\ \A i \in DOMAIN checks :
                 /\ checks[i].at = 100 * (i - 1)
                 /\ checks[i].found => i = Len(checks)
           /\ callbackCalls = IF last.found THEN 1 ELSE 0
           /\ waitWarnings = IF ~last.found /\ attempts = maxAttempts THEN 1 ELSE 0
           /\ checkTimer <=> (~last.found /\ attempts < maxAttempts)

\* C26: for maxAttempts >= 1 the wait is bounded as above in every state, it
\* reaches a state with no check scheduled, and from then on nothing of it
\* changes: no further check, callback or warning.
C26_BoundedWaitTerminates ==
    /\ []WaitBounded
    /\ WaitCalled ~> ~checkTimer
    /\ [][(WaitCalled /\ ~checkTimer) => UNCHANGED waitVars]_vars

\* Reached: the default ten checks found nothing and the warning was logged.
C26_Witness ==
    /\ maxAttempts = DefaultMaxAttempts
    /\ Len(checks) = DefaultMaxAttempts
    /\ \A i \in DOMAIN checks : ~checks[i].found
    /\ waitWarnings = 1
    /\ callbackCalls = 0
    /\ ~checkTimer

\* ---------------------------------------------------------------- C27
\* While PostHog is not available every call made so far is in eventQueue,
\* in order, and once there is one the flush is marked as running with its
\* 100 ms poll armed.
PollKeepsWaiting ==
    ~GetPostHog =>
        /\ eventQueue = [i \in DOMAIN calls |-> calls[i].ev]
        /\ sdkLog = <<>>
        /\ calls # <<>> => (isFlushingQueue /\ flushTimers = 1)

\* C27: for as long as the SDK is not loaded the readiness poll started by
\* the first queued event stays armed and isFlushingQueue true, whatever
\* number of polls has fired, no queued event is dropped, and each further
\* identify/track/page/group call appends exactly its event to eventQueue.
C27_FlushPollUnbounded ==
    /\ []PollKeepsWaiting
    /\ [][(~GetPostHog' /\ Len(calls') = Len(calls) + 1) =>
             eventQueue' = Append(eventQueue, calls'[Len(calls')].ev)]_vars
    /\ [][(~GetPostHog' /\ eventQueue # <<>>) =>
             /\ isFlushingQueue'
             /\ flushTimers' = 1
             /\ SubSeq(eventQueue', 1, Len(eventQueue)) = eventQueue]_vars

\* Reached: two calls are queued behind the poll, PostHog never having been
\* initialised.
C27_Witness ==
    /\ ~windowPosthog
    /\ instrumented
    /\ Len(eventQueue) = 2
    /\ isFlushingQueue
    /\ flushTimers = 1

====
